---- MODULE Spec2Model ----
(***************************************************************************)
(* NJ-Go: the two-tier cache (CacheService), the geofence tracker          *)
(* (LocationService) and the recommendation engine                         *)
(* (TransitRecommendationService) as state machines.                       *)
(*                                                                         *)
(* Time is the value of Date.now() in milliseconds; it advances in steps   *)
(* of one second.  JavaScript values are records tagged by "kind"; a       *)
(* string that holds the JSON text of a value v is [kind |-> "string",     *)
(* of |-> v], so JSON.stringify wraps and JSON.parse unwraps.              *)
(***************************************************************************)
EXTENDS Integers, Sequences, FiniteSets, TLC

\* ------------------------------------------------------------------ bounds
MaxTime == 2      \* the clock stops after this many seconds
MaxOps == 4       \* calls started in one behaviour
MaxSpots == 2     \* waiting spots in a list passed to setWaitingSpots

\* ------------------------------------------------------- program constants
MsPerSecond == 1000
TTL_TRAVEL_RECOMMENDATIONS == 300
TTL_TRANSIT_ARRIVALS == 60
TTL_WAITING_SPOTS == 3600
EarthRadius == 6371000   \* R, metres

\* ------------------------------------------------------ JavaScript values
Null == [kind |-> "null"]
Undefined == [kind |-> "undefined"]
ObjA == [kind |-> "object", id |-> "a"]
True == [kind |-> "boolean", b |-> TRUE]
False == [kind |-> "boolean", b |-> FALSE]

\* The values callers store and producers resolve to.
Values == {Null, Undefined, ObjA}

\* JavaScript truthiness (a JSON text is never the empty string).
Truthy(v) ==
  CASE v.kind = "null" -> FALSE
    [] v.kind = "undefined" -> FALSE
    [] v.kind = "number" -> v.n # 0
    [] v.kind = "boolean" -> v.b
    [] OTHER -> TRUE

\* JSON.stringify(v): undefined for undefined, else the string holding v's text.
JSONstringify(v) ==
  IF v.kind = "undefined" THEN Undefined ELSE [kind |-> "string", of |-> v]

\* JSON.parse(s) for a string s that holds a JSON text.
JSONparse(s) == s.of

\* ------------------------------------------------------------------- keys
\* Mutant of Includes: the pattern matches at the start of the key only.
IncludesAtStart(key, pattern) ==
  Len(pattern) <= Len(key) /\ SubSeq(key, 1, Len(pattern)) = pattern

\* key.includes(pattern)
Includes(key, pattern) ==
  \E i \in 0..(Len(key) - Len(pattern)) :
    SubSeq(key, i + 1, i + Len(pattern)) = pattern

getRecommendationsKey(planId, locationHash) ==
  "travel_recommendations" \o ":" \o planId \o ":" \o locationHash

getTransitArrivalsKey(stopId) == "transit_arrivals" \o ":" \o stopId

getRoutePlansKey(userId) == "route_plans" \o ":" \o userId

getWaitingSpotsKey(areaId) == "waiting_spots" \o ":" \o areaId

\* A position is [latitude, longitude] in metres of arc from the origin of a local
\* frame (0 degrees, 0 degrees), north and east of it; one degree of arc is
\* R * pi / 180 metres.
MetresPerDegree == (EarthRadius * 333) \div (106 * 180)

RECURSIVE Power10(_)
Power10(n) == IF n = 0 THEN 1 ELSE 10 * Power10(n - 1)

\* The last `width` decimal digits of n, with leading zeros.
RECURSIVE Digits(_, _)
Digits(n, width) ==
  IF width = 0 THEN "" ELSE Digits(n \div 10, width - 1) \o ToString(n % 10)

\* (metres / MetresPerDegree).toFixed(precision), for a position north or east
\* of the origin: the degrees, rounded to `precision` decimals.
toFixed(metres, precision) ==
  LET q == (2 * metres * Power10(precision) + MetresPerDegree)
             \div (2 * MetresPerDegree)
  IN IF precision = 0 THEN ToString(q)
     ELSE ToString(q \div Power10(precision)) \o "."
            \o Digits(q % Power10(precision), precision)

createLocationHash(latitude, longitude, precision) ==
  toFixed(latitude, precision) \o "," \o toFixed(longitude, precision)

\* The key and the patterns of the calls of Spec: one pattern matches the key.
Keys == { getRoutePlansKey("u1") }

Patterns == { "route_plans:u1", "*" }

\* The keys and the patterns of SpecInvalidate: the first pattern is a prefix of
\* both keys, the second lies inside one of them, the third is in neither.
RecommendationKeys ==
  { getRecommendationsKey("p1", "1.000,2.000"),
    getRecommendationsKey("p12", "1.000,2.000") }

RecommendationPatterns == { "travel_recommendations:p1", "p12", "*" }

TtlOptions == {0, 1}   \* options.ttl; 0 stands for "not given"

\* ------------------------------------------------------------------ state
VARIABLES
  now,          \* Date.now(), milliseconds
  localCache,   \* CacheService.localCache: key -> CachedData
  remoteStore,  \* the Redis keyspace behind cache-handler: key -> [value, expireAt]
  remoteUp,     \* FALSE: every remote operation fails
  calls,        \* caller -> the call it has in flight or has last completed
  opsLeft,      \* calls that may still be started
  lastSet,      \* key -> the last set of the key whose local entry nothing has replaced or removed
  currentLocation,     \* LocationService.currentLocation
  waitingSpots,        \* LocationService.waitingSpots
  currentWaitingSpot,  \* LocationService.currentWaitingSpot
  isInWaitingSpot,     \* LocationService.isInWaitingSpot
  isWatchingLocation,  \* LocationService.isWatchingLocation
  notifications,       \* what the subscriber of onWaitingSpotChange has received, in order
  component,           \* the TransitRecommendations component: its state and the closures of its last render
  timers,              \* the ids of the intervals that setInterval has created and clearInterval has not cleared
  purchase             \* one useShakeToPurchase instance: its state, its open dialogs and its pending purchases

geoVars == <<currentLocation, waitingSpots, currentWaitingSpot, isInWaitingSpot,
             isWatchingLocation, notifications>>

uiVars == <<component, timers, purchase>>

vars ==
  <<now, localCache, remoteStore, remoteUp, calls, opsLeft, lastSet, geoVars,
    uiVars>>

\* One logical flow: a caller awaits each call before it starts the next.
Callers == {"c1"}

\* Two logical flows whose calls may overlap (no single-flight in the service).
OverlapCallers == {"c1", "c2"}

Put(f, k, v) == [x \in (DOMAIN f) \cup {k} |-> IF x = k THEN v ELSE f[x]]
Drop(f, S) == [x \in (DOMAIN f) \ S |-> f[x]]
Empty == [x \in {} |-> Null]

\* id and at identify the call: the budget left and the time when it started.
IdleCall ==
  [op |-> "idle", pc |-> "idle", key |-> "", data |-> Null, ttl |-> 0,
   ret |-> Null, threw |-> FALSE, invoked |-> 0, id |-> 0, at |-> 0,
   args |-> <<>>]

\* ----------------------------------------------------- local tier helpers
\* Mutant of isExpired: an entry expires when its ttl has elapsed exactly.
isExpiredAtTtl(cached, t) ==
  IF cached.ttl = 0 THEN FALSE
  ELSE t - cached.timestamp >= cached.ttl * MsPerSecond

isExpired(cached, t) ==
  IF cached.ttl = 0 THEN FALSE
  ELSE t - cached.timestamp > cached.ttl * MsPerSecond

\* Mutant of getFromLocalCache: a falsy cached value counts as a miss.
getFromLocalCacheTruthy(cache, key, t) ==
  IF key \in DOMAIN cache /\ ~isExpired(cache[key], t) /\ Truthy(cache[key].data)
  THEN cache[key].data
  ELSE Null

\* The value getFromLocalCache returns.
getFromLocalCache(cache, key, t) ==
  IF key \in DOMAIN cache /\ ~isExpired(cache[key], t)
  THEN cache[key].data
  ELSE Null

\* The local tier getFromLocalCache leaves behind: an expired entry is deleted.
evictExpired(cache, key, t) ==
  IF key \in DOMAIN cache /\ isExpired(cache[key], t)
  THEN Drop(cache, {key})
  ELSE cache

\* Mutant of setInLocalCache: the local write depends on the remote tier.
setInLocalCacheIfRemote(cache, key, data, ttl, t) ==
  IF remoteUp THEN Put(cache, key, [data |-> data, timestamp |-> t, ttl |-> ttl])
  ELSE cache

setInLocalCache(cache, key, data, ttl, t) ==
  Put(cache, key, [data |-> data, timestamp |-> t, ttl |-> ttl])

\* ---------------------------------------------------- remote tier helpers
\* Outcomes of client.queries.cacheLayer: a response of the handler, a
\* response with success = false, or a rejected request.
Outcomes == IF remoteUp THEN {"ok", "fail", "throw"} ELSE {"fail", "throw"}

\* Redis: a key written by SETEX is gone once its ttl has elapsed.
RemoteLive(store, key, t) ==
  key \in DOMAIN store /\ (store[key].expireAt = -1 \/ t < store[key].expireAt)

\* handler 'get': response.data.data
handlerGet(store, key, t) ==
  IF RemoteLive(store, key, t) /\ Truthy(store[key].value)
  THEN JSONparse(store[key].value)
  ELSE Null

\* getFromRemoteCache: the value or null
getFromRemoteCache(store, key, t, outcome) ==
  IF outcome = "ok" /\ Truthy(handlerGet(store, key, t))
  THEN handlerGet(store, key, t)
  ELSE Null

\* handler 'set' on request value `value` (the client's JSON.stringify(data))
handlerSet(store, key, value, ttl, t) ==
  IF ~Truthy(value) THEN store
  ELSE Put(store, key,
           [value |-> JSONstringify(value),
            expireAt |-> IF ttl # 0 THEN t + ttl * MsPerSecond ELSE -1])

\* handler 'del'
handlerDel(store, key) == Drop(store, {key})

\* existsInRemoteCache
existsInRemoteCache(store, key, t, outcome) ==
  IF outcome = "ok" /\ RemoteLive(store, key, t) THEN True ELSE False

\* -------------------------------------------------------------- the calls
CanStart(c) == calls[c].pc \in {"idle", "done"} /\ opsLeft > 0

\* A call that starts now and returns ret at once.
Done(op, key, ret) ==
  [IdleCall EXCEPT !.op = op, !.pc = "done", !.key = key, !.ret = ret,
                   !.id = opsLeft, !.at = now]

\* A call that starts now and suspends at pc.
Pending(op, pc, key, data, ttl) ==
  [IdleCall EXCEPT !.op = op, !.pc = pc, !.key = key, !.data = data, !.ttl = ttl,
                   !.id = opsLeft, !.at = now]

\* The suspended call `call` returns ret.
Return(call, ret) ==
  [IdleCall EXCEPT !.op = call.op, !.pc = "done", !.key = call.key, !.ret = ret,
                   !.invoked = call.invoked, !.id = call.id, !.at = call.at,
                   !.args = call.args]

\* options.ttl || DEFAULT_TTL.TRAVEL_RECOMMENDATIONS
EffectiveTtl(o) == IF o # 0 THEN o ELSE TTL_TRAVEL_RECOMMENDATIONS

\* get, up to the await of the remote tier.
GetLocal(c, k) ==
  /\ CanStart(c)
  /\ LET d == getFromLocalCache(localCache, k, now) IN
       calls' = [calls EXCEPT ![c] =
                   IF d # Null THEN Done("get", k, d)
                   ELSE Pending("get", "get_remote", k, Null, 0)]
  /\ localCache' = evictExpired(localCache, k, now)
  /\ opsLeft' = opsLeft - 1
  /\ UNCHANGED <<geoVars, uiVars>>
  /\ UNCHANGED <<now, remoteStore, remoteUp, lastSet>>

\* getOrSet, up to the await of the remote tier (its get).
GetOrSetLocal(c, k, o) ==
  /\ CanStart(c)
  /\ LET d == getFromLocalCache(localCache, k, now) IN
       calls' = [calls EXCEPT ![c] =
                   IF d # Null THEN Done("getOrSet", k, d)
                   ELSE Pending("getOrSet", "get_remote", k, Null, o)]
  /\ localCache' = evictExpired(localCache, k, now)
  /\ opsLeft' = opsLeft - 1
  /\ UNCHANGED <<geoVars, uiVars>>
  /\ UNCHANGED <<now, remoteStore, remoteUp, lastSet>>

\* The remote get answers: get returns; getOrSet returns or awaits its producer.
GetRemote(c) ==
  /\ calls[c].pc = "get_remote"
  /\ calls[c].op \in {"get", "getOrSet"}
  /\ \E outcome \in Outcomes :
       LET k == calls[c].key
           r == getFromRemoteCache(remoteStore, k, now, outcome)
       IN IF r # Null
          THEN /\ localCache' =
                    setInLocalCache(localCache, k, r, TTL_TRAVEL_RECOMMENDATIONS, now)
               /\ lastSet' = Drop(lastSet, {k})
               /\ calls' = [calls EXCEPT ![c] = Return(calls[c], r)]
          ELSE /\ UNCHANGED <<localCache, lastSet>>
               /\ calls' = [calls EXCEPT ![c] =
                              IF calls[c].op = "get" THEN Return(calls[c], Null)
                              ELSE [calls[c] EXCEPT !.pc = "callback"]]
  /\ UNCHANGED <<geoVars, uiVars>>
  /\ UNCHANGED <<now, remoteStore, remoteUp, opsLeft>>

\* The producer of getOrSet resolves to v; set writes the local tier and awaits
\* the remote write.
CallbackResolve(c, v) ==
  /\ calls[c].pc = "callback"
  /\ calls[c].op = "getOrSet"
  /\ LET k == calls[c].key
         ttl == EffectiveTtl(calls[c].ttl)
     IN /\ localCache' = setInLocalCache(localCache, k, v, ttl, now)
        /\ lastSet' = Put(lastSet, k, [data |-> v, ttl |-> ttl, at |-> now])
        /\ calls' = [calls EXCEPT ![c] =
                       [calls[c] EXCEPT !.pc = "set_remote", !.data = v, !.ttl = ttl,
                                        !.invoked = @ + 1]]
  /\ UNCHANGED <<geoVars, uiVars>>
  /\ UNCHANGED <<now, remoteStore, remoteUp, opsLeft>>

\* Mutant of CallbackReject: the rejection is swallowed, null is cached and
\* returned.
CallbackRejectCachesNull(c) ==
  /\ calls[c].pc = "callback"
  /\ calls[c].op = "getOrSet"
  /\ localCache' = setInLocalCache(localCache, calls[c].key, Null,
                                   EffectiveTtl(calls[c].ttl), now)
  /\ calls' = [calls EXCEPT ![c] =
                 [Return(calls[c], Null) EXCEPT !.invoked = calls[c].invoked + 1]]
  /\ UNCHANGED <<geoVars, uiVars>>
  /\ UNCHANGED <<now, remoteStore, remoteUp, opsLeft, lastSet>>

\* The producer of getOrSet rejects: getOrSet rejects.
CallbackReject(c) ==
  /\ calls[c].pc = "callback"
  /\ calls[c].op = "getOrSet"
  /\ calls' = [calls EXCEPT ![c] =
                 [Return(calls[c], Null) EXCEPT
                    !.threw = TRUE, !.invoked = calls[c].invoked + 1]]
  /\ UNCHANGED <<geoVars, uiVars>>
  /\ UNCHANGED <<now, localCache, remoteStore, remoteUp, opsLeft, lastSet>>

\* What set and delete return once the remote operation has ended with `outcome`:
\* setInRemoteCache and deleteFromRemoteCache swallow every failure.
\* Mutant of setReturns: a failed remote write fails the set.
setReturnsRemoteResult(outcome) == IF outcome = "ok" THEN True ELSE False

setReturns(outcome) == True

deleteReturns(outcome) == True

\* set, up to the await of the remote write.
SetLocal(c, k, v, o) ==
  /\ CanStart(c)
  /\ LET ttl == EffectiveTtl(o) IN
       /\ localCache' = setInLocalCache(localCache, k, v, ttl, now)
       /\ lastSet' = Put(lastSet, k, [data |-> v, ttl |-> ttl, at |-> now])
       /\ calls' = [calls EXCEPT ![c] = Pending("set", "set_remote", k, v, ttl)]
  /\ opsLeft' = opsLeft - 1
  /\ UNCHANGED <<geoVars, uiVars>>
  /\ UNCHANGED <<now, remoteStore, remoteUp>>

\* Mutant of SetRemote: the local tier is written when the remote write answers.
SetRemoteThenLocal(c) ==
  /\ calls[c].pc = "set_remote"
  /\ calls[c].op \in {"set", "getOrSet"}
  /\ \E outcome \in Outcomes :
       /\ remoteStore' =
            IF outcome = "ok"
            THEN handlerSet(remoteStore, calls[c].key, JSONstringify(calls[c].data),
                            calls[c].ttl, now)
            ELSE remoteStore
       /\ calls' = [calls EXCEPT ![c] =
                      Return(calls[c], IF calls[c].op = "set" THEN setReturns(outcome)
                                       ELSE calls[c].data)]
  /\ localCache' = setInLocalCache(localCache, calls[c].key, calls[c].data,
                                   calls[c].ttl, now)
  /\ UNCHANGED <<geoVars, uiVars>>
  /\ UNCHANGED <<now, remoteUp, opsLeft, lastSet>>

\* The remote write answers (or fails): set returns true, getOrSet the fresh data.
SetRemote(c) ==
  /\ calls[c].pc = "set_remote"
  /\ calls[c].op \in {"set", "getOrSet"}
  /\ \E outcome \in Outcomes :
       /\ remoteStore' =
            IF outcome = "ok"
            THEN handlerSet(remoteStore, calls[c].key, JSONstringify(calls[c].data),
                            calls[c].ttl, now)
            ELSE remoteStore
       /\ calls' = [calls EXCEPT ![c] =
                      Return(calls[c], IF calls[c].op = "set" THEN setReturns(outcome)
                                       ELSE calls[c].data)]
  /\ UNCHANGED <<geoVars, uiVars>>
  /\ UNCHANGED <<now, localCache, remoteUp, opsLeft, lastSet>>

\* delete, up to the await of the remote delete.
DeleteLocal(c, k) ==
  /\ CanStart(c)
  /\ localCache' = Drop(localCache, {k})
  /\ lastSet' = Drop(lastSet, {k})
  /\ calls' = [calls EXCEPT ![c] = Pending("delete", "del_remote", k, Null, 0)]
  /\ opsLeft' = opsLeft - 1
  /\ UNCHANGED <<geoVars, uiVars>>
  /\ UNCHANGED <<now, remoteStore, remoteUp>>

DeleteRemote(c) ==
  /\ calls[c].pc = "del_remote"
  /\ \E outcome \in Outcomes :
       /\ remoteStore' =
            IF outcome = "ok" THEN handlerDel(remoteStore, calls[c].key)
            ELSE remoteStore
       /\ calls' = [calls EXCEPT ![c] = Return(calls[c], deleteReturns(outcome))]
  /\ UNCHANGED <<geoVars, uiVars>>
  /\ UNCHANGED <<now, localCache, remoteUp, opsLeft, lastSet>>

\* exists, up to the await of the remote check.
ExistsLocal(c, k) ==
  /\ CanStart(c)
  /\ calls' = [calls EXCEPT ![c] =
                 IF k \in DOMAIN localCache /\ ~isExpired(localCache[k], now)
                 THEN Done("exists", k, True)
                 ELSE Pending("exists", "exists_remote", k, Null, 0)]
  /\ opsLeft' = opsLeft - 1
  /\ UNCHANGED <<geoVars, uiVars>>
  /\ UNCHANGED <<now, localCache, remoteStore, remoteUp, lastSet>>

ExistsRemote(c) ==
  /\ calls[c].pc = "exists_remote"
  /\ \E outcome \in Outcomes :
       calls' = [calls EXCEPT ![c] =
                   Return(calls[c],
                          existsInRemoteCache(remoteStore, calls[c].key, now, outcome))]
  /\ UNCHANGED <<geoVars, uiVars>>
  /\ UNCHANGED <<now, localCache, remoteStore, remoteUp, opsLeft, lastSet>>

\* The keys invalidatePattern deletes.
Matching(cache, pattern) == {k \in DOMAIN cache : Includes(k, pattern)}

\* Mutant of invalidatePattern: the pattern is logged and nothing is removed.
invalidatePatternLogOnly(cache, pattern) == cache

invalidatePattern(cache, pattern) == Drop(cache, Matching(cache, pattern))

\* invalidatePattern has no await: it runs to its end in one step.
InvalidatePattern(c, p) ==
  /\ CanStart(c)
  /\ localCache' = invalidatePattern(localCache, p)
  /\ lastSet' = Drop(lastSet, Matching(lastSet, p))
  /\ calls' = [calls EXCEPT ![c] = Done("invalidatePattern", p, Undefined)]
  /\ opsLeft' = opsLeft - 1
  /\ UNCHANGED <<geoVars, uiVars>>
  /\ UNCHANGED <<now, remoteStore, remoteUp>>

Clear(c) ==
  /\ CanStart(c)
  /\ localCache' = Empty
  /\ lastSet' = Empty
  /\ calls' = [calls EXCEPT ![c] = Done("clear", "", Undefined)]
  /\ opsLeft' = opsLeft - 1
  /\ UNCHANGED <<geoVars, uiVars>>
  /\ UNCHANGED <<now, remoteStore, remoteUp>>

\* The five-minute sweep of the constructor; its phase is not fixed by the
\* calls, so it may run between any two steps.
cleanupExpiredLocalCache(cache, t) ==
  Drop(cache, {k \in DOMAIN cache : isExpired(cache[k], t)})

Cleanup ==
  /\ cleanupExpiredLocalCache(localCache, now) # localCache
  /\ localCache' = cleanupExpiredLocalCache(localCache, now)
  /\ UNCHANGED <<geoVars, uiVars>>
  /\ UNCHANGED <<now, remoteStore, remoteUp, calls, opsLeft, lastSet>>

Tick ==
  /\ now < MaxTime * MsPerSecond
  /\ now' = now + MsPerSecond
  /\ UNCHANGED <<geoVars, uiVars>>
  /\ UNCHANGED <<localCache, remoteStore, remoteUp, calls, opsLeft, lastSet>>

\* --------------------------------------------------- the location service
\* calculateDistance for two positions on one meridian: the great-circle
\* distance is the arc between the latitudes.
calculateDistance(point1, point2) ==
  IF point2.latitude >= point1.latitude
  THEN point2.latitude - point1.latitude
  ELSE point1.latitude - point2.latitude

\* Transit stops, each at the centre of its waiting spot.
Stop1 ==
  [id |-> "s1", name |-> "Stop 1", latitude |-> 0, longitude |-> 0,
   lines |-> <<"bus-1">>]
Stop2 ==
  [id |-> "s2", name |-> "Stop 2", latitude |-> 55, longitude |-> 0,
   lines |-> <<"train-9">>]

\* Waiting spots: A (radius 100) and B (radius 50) overlap; AEdited is A after
\* an edit of its radius; C is not active.
SpotA ==
  [id |-> "A", name |-> "A", latitude |-> 0, longitude |-> 0, radius |-> 100,
   transitStops |-> <<Stop1>>, isActive |-> TRUE]
SpotAEdited ==
  [id |-> "A", name |-> "A (edited)", latitude |-> 0, longitude |-> 0,
   radius |-> 50, transitStops |-> <<Stop1>>, isActive |-> TRUE]
SpotB ==
  [id |-> "B", name |-> "B", latitude |-> 55, longitude |-> 0, radius |-> 50,
   transitStops |-> <<Stop2>>, isActive |-> TRUE]
SpotC ==
  [id |-> "C", name |-> "C", latitude |-> 0, longitude |-> 0, radius |-> 100,
   transitStops |-> <<>>, isActive |-> FALSE]

Spots == {SpotA, SpotAEdited, SpotB, SpotC}

\* The lists passed to setWaitingSpots: ids are unique in a list.
SpotLists ==
  {l \in UNION {[1..n -> Spots] : n \in 0..MaxSpots} :
     \A i, j \in DOMAIN l : i # j => l[i].id # l[j].id}

\* The positions of the samples: inside A only (0), inside A and B and nearer
\* to B (30), at A's radius exactly and inside B (100), outside both (130).
Locations ==
  {[latitude |-> m, longitude |-> 0] : m \in {0, 30, 100, 130}}

\* spot?.id
IdOf(spot) == IF spot = Null THEN "undefined" ELSE spot.id

InSpot(location, spot) ==
  calculateDistance(location, [latitude |-> spot.latitude,
                               longitude |-> spot.longitude]) <= spot.radius

\* Mutant of activeSpotOf: the nearest of the spots that contain the location.
activeSpotNearest(spots, location) ==
  IF \E i \in DOMAIN spots : InSpot(location, spots[i])
  THEN spots[CHOOSE i \in DOMAIN spots :
               /\ InSpot(location, spots[i])
               /\ \A j \in DOMAIN spots :
                    InSpot(location, spots[j]) =>
                      \/ calculateDistance(location, spots[i])
                           < calculateDistance(location, spots[j])
                      \/ /\ calculateDistance(location, spots[i])
                              = calculateDistance(location, spots[j])
                         /\ i <= j]
  ELSE Null

\* The loop of checkWaitingSpots: activeSpot when it ends (null: isInAnySpot is false).
activeSpotOf(spots, location) ==
  IF \E i \in DOMAIN spots : InSpot(location, spots[i])
  THEN spots[CHOOSE i \in DOMAIN spots :
               /\ InSpot(location, spots[i])
               /\ \A j \in 1..(i - 1) : ~InSpot(location, spots[j])]
  ELSE Null

\* Mutant of stateChanged: only a flip of the inside flag counts.
stateChangedOnFlip(isInAnySpot, activeSpot, wasInSpot, previousSpot) ==
  isInAnySpot # wasInSpot

\* The test of checkWaitingSpots before it stores and notifies.
stateChanged(isInAnySpot, activeSpot, wasInSpot, previousSpot) ==
  isInAnySpot # wasInSpot \/ IdOf(activeSpot) # IdOf(previousSpot)

\* Mutant of checkWaitingSpots: a leave keeps and reports the spot that was left.
checkWaitingSpotsLeaveWithSpot(spots, location) ==
  LET activeSpot == activeSpotOf(spots, location)
      isInAnySpot == activeSpot # Null
      reported == IF isInAnySpot THEN activeSpot ELSE currentWaitingSpot
  IN IF stateChanged(isInAnySpot, activeSpot, isInWaitingSpot, currentWaitingSpot)
     THEN /\ isInWaitingSpot' = isInAnySpot
          /\ currentWaitingSpot' = reported
          /\ notifications' =
               Append(notifications, [isInSpot |-> isInAnySpot, spot |-> reported])
     ELSE UNCHANGED <<isInWaitingSpot, currentWaitingSpot, notifications>>

\* checkWaitingSpots(location) over the list `spots`.
checkWaitingSpots(spots, location) ==
  LET activeSpot == activeSpotOf(spots, location)
      isInAnySpot == activeSpot # Null
  IN IF stateChanged(isInAnySpot, activeSpot, isInWaitingSpot, currentWaitingSpot)
     THEN /\ isInWaitingSpot' = isInAnySpot
          /\ currentWaitingSpot' = activeSpot
          /\ notifications' =
               Append(notifications, [isInSpot |-> isInAnySpot, spot |-> activeSpot])
     ELSE UNCHANGED <<isInWaitingSpot, currentWaitingSpot, notifications>>

\* startWatchingLocation, permission granted.
StartWatchingLocation ==
  /\ ~isWatchingLocation
  /\ isWatchingLocation' = TRUE
  /\ UNCHANGED <<now, localCache, remoteStore, remoteUp, calls, opsLeft, lastSet>>
  /\ UNCHANGED <<currentLocation, waitingSpots, currentWaitingSpot, isInWaitingSpot,
                 notifications>>
  /\ UNCHANGED uiVars

\* The callback of watchPositionAsync on a sample.
WatchSample(location) ==
  /\ isWatchingLocation
  /\ opsLeft > 0
  /\ currentLocation' = location
  /\ checkWaitingSpots(waitingSpots, location)
  /\ opsLeft' = opsLeft - 1
  /\ UNCHANGED <<now, localCache, remoteStore, remoteUp, calls, lastSet>>
  /\ UNCHANGED <<waitingSpots, isWatchingLocation>>
  /\ UNCHANGED uiVars

\* getCurrentLocation, when getCurrentPositionAsync resolves to `location`.
GetCurrentLocation(c, location) ==
  /\ CanStart(c)
  /\ currentLocation' = location
  /\ calls' = [calls EXCEPT ![c] = Done("getCurrentLocation", "", location)]
  /\ opsLeft' = opsLeft - 1
  /\ UNCHANGED <<now, localCache, remoteStore, remoteUp, lastSet>>
  /\ UNCHANGED <<waitingSpots, currentWaitingSpot, isInWaitingSpot,
                 isWatchingLocation, notifications>>
  /\ UNCHANGED uiVars

activeSpotsOf(spots) == SelectSeq(spots, LAMBDA spot : spot.isActive)

\* The array `spots` as a cached value.
ArrayOf(spots) == [kind |-> "array", items |-> spots]

\* setWaitingSpots, up to the await of cacheService.set (its remote write); with
\* no current location it runs to its end.
SetWaitingSpots(c, spots) ==
  /\ CanStart(c)
  /\ waitingSpots' = activeSpotsOf(spots)
  /\ IF currentLocation # Null
     THEN LET cacheKey ==
                getWaitingSpotsKey(createLocationHash(currentLocation.latitude,
                                                      currentLocation.longitude, 2))
              data == ArrayOf(activeSpotsOf(spots))
          IN /\ localCache' =
                  setInLocalCache(localCache, cacheKey, data, TTL_WAITING_SPOTS, now)
             /\ lastSet' = Put(lastSet, cacheKey,
                               [data |-> data, ttl |-> TTL_WAITING_SPOTS, at |-> now])
             /\ calls' = [calls EXCEPT ![c] =
                            Pending("setWaitingSpots", "spots_set_remote", cacheKey,
                                    data, TTL_WAITING_SPOTS)]
     ELSE /\ calls' = [calls EXCEPT ![c] = Done("setWaitingSpots", "", Undefined)]
          /\ UNCHANGED <<localCache, lastSet>>
  /\ opsLeft' = opsLeft - 1
  /\ UNCHANGED <<now, remoteStore, remoteUp>>
  /\ UNCHANGED <<currentLocation, currentWaitingSpot, isInWaitingSpot,
                 isWatchingLocation, notifications>>
  /\ UNCHANGED uiVars

\* cacheService.set returns: setWaitingSpots rechecks the current location.
SpotsSetRemote(c) ==
  /\ calls[c].pc = "spots_set_remote"
  /\ \E outcome \in Outcomes :
       remoteStore' =
         IF outcome = "ok"
         THEN handlerSet(remoteStore, calls[c].key, JSONstringify(calls[c].data),
                         calls[c].ttl, now)
         ELSE remoteStore
  /\ calls' = [calls EXCEPT ![c] = Return(calls[c], Undefined)]
  /\ IF currentLocation # Null
     THEN checkWaitingSpots(waitingSpots, currentLocation)
     ELSE UNCHANGED <<isInWaitingSpot, currentWaitingSpot, notifications>>
  /\ UNCHANGED <<now, localCache, remoteUp, opsLeft, lastSet>>
  /\ UNCHANGED <<currentLocation, waitingSpots, isWatchingLocation>>
  /\ UNCHANGED uiVars

\* --------------------------------------------- the recommendation service
\* A Date as getRecommendations reads it: getDay() and the local clock time.
\* formatTime: toTimeString().slice(0, 5), "HH:MM".
formatTime(date) == Digits(date.hours, 2) \o ":" \o Digits(date.minutes, 2)

\* The value of a decimal digit.
digitOf(ch) ==
  CASE ch = "0" -> 0 [] ch = "1" -> 1 [] ch = "2" -> 2 [] ch = "3" -> 3
    [] ch = "4" -> 4 [] ch = "5" -> 5 [] ch = "6" -> 6 [] ch = "7" -> 7
    [] ch = "8" -> 8 [] ch = "9" -> 9

\* Number(s) for a string of decimal digits.
RECURSIVE NumberOf(_)
NumberOf(s) ==
  IF s = "" THEN 0
  ELSE 10 * NumberOf(SubSeq(s, 1, Len(s) - 1))
         + digitOf(SubSeq(s, Len(s), Len(s)))

\* timeToMinutes: timeStr.split(':').map(Number), hours * 60 + minutes.
parseMinutes(timeStr) ==
  LET colon == CHOOSE i \in 1..Len(timeStr) : SubSeq(timeStr, i, i) = ":"
  IN NumberOf(SubSeq(timeStr, 1, colon - 1)) * 60
       + NumberOf(SubSeq(timeStr, colon + 1, Len(timeStr)))

\* The HH:MM strings of the slots and of the clock, and parseMinutes over them,
\* evaluated once.
ClockStrings ==
  {"00:00", "01:00", "02:00", "08:00", "08:30", "09:00", "10:00", "22:00",
   "23:30", "23:59"}

minutesOf == [timeStr \in ClockStrings |-> parseMinutes(timeStr)]

timeToMinutes(timeStr) == minutesOf[timeStr]

\* Mutant of isTimeInRange: a window whose start is after its end holds nothing.
isTimeInRangeSameDay(currentTime, startTime, endTime) ==
  LET current == timeToMinutes(currentTime)
      start == timeToMinutes(startTime)
      end == timeToMinutes(endTime)
  IN current >= start /\ current <= end

isTimeInRange(currentTime, startTime, endTime) ==
  LET current == timeToMinutes(currentTime)
      start == timeToMinutes(startTime)
      end == timeToMinutes(endTime)
  IN IF start <= end
     THEN current >= start /\ current <= end
     ELSE current >= start \/ current <= end

\* Mutant of slotMatches: the hours up to the end of a slot that wraps midnight
\* belong to the day after the slot's day.
slotMatchesOvernight(slot, currentTime) ==
  LET current == timeToMinutes(formatTime(currentTime))
      start == timeToMinutes(slot.startTime)
      end == timeToMinutes(slot.endTime)
  IN IF start <= end
     THEN slot.dayOfWeek = currentTime.day /\ current >= start /\ current <= end
     ELSE \/ slot.dayOfWeek = currentTime.day /\ current >= start
          \/ (slot.dayOfWeek + 1) % 7 = currentTime.day /\ current <= end

\* The test of the filters of getActiveTravelPlans and getCurrentDestinations.
slotMatches(slot, currentTime) ==
  /\ slot.dayOfWeek = currentTime.day
  /\ isTimeInRange(formatTime(currentTime), slot.startTime, slot.endTime)

\* Mutant of getActiveTravelPlans: a plan that is not active counts too.
getActiveTravelPlansAnyPlan(travelPlans, currentTime) ==
  SelectSeq(travelPlans,
            LAMBDA plan : \E i \in DOMAIN plan.timeSlots :
                            slotMatches(plan.timeSlots[i], currentTime))

getActiveTravelPlans(travelPlans, currentTime) ==
  SelectSeq(travelPlans,
            LAMBDA plan : /\ plan.isActive
                          /\ \E i \in DOMAIN plan.timeSlots :
                               slotMatches(plan.timeSlots[i], currentTime))

getCurrentDestinations(plan, currentTime) ==
  LET activeTimeSlots ==
        SelectSeq(plan.timeSlots, LAMBDA slot : slotMatches(slot, currentTime))
      destinationIds ==
        UNION {{activeTimeSlots[i].destinationIds[k] :
                  k \in DOMAIN activeTimeSlots[i].destinationIds} :
               i \in DOMAIN activeTimeSlots}
  IN SelectSeq(plan.destinations, LAMBDA dest : dest.id \in destinationIds)

\* ids.join(',')
RECURSIVE Join(_, _)
Join(strings, separator) ==
  IF strings = <<>> THEN ""
  ELSE IF Len(strings) = 1 THEN strings[1]
  ELSE strings[1] \o separator \o Join(Tail(strings), separator)

RECURSIVE Concat(_)
Concat(seqs) == IF seqs = <<>> THEN <<>> ELSE Head(seqs) \o Concat(Tail(seqs))

\* The producer of getNearbyArrivals at time t: for every stop and line of the
\* spot, arrivals in 10, 20 and 30 minutes, sorted by arrival time (the sort
\* is stable: arrivals of one time keep the order of the stops and lines).
\* The random delay, which nothing reads, is left out.
mockArrivals(waitingSpot, t) ==
  LET stops == waitingSpot.transitStops IN
  ArrayOf(Concat([i \in 1..3 |->
    Concat([s \in DOMAIN stops |->
      [l \in DOMAIN stops[s].lines |->
         [routeId |-> stops[s].lines[l],
          stopId |-> stops[s].id,
          arrivalTime |-> t + i * 10 * 60000,
          destination |-> stops[s].lines[l] \o " terminal"]]])]))

\* estimateTransitHeading, for a destination due north, south, east or west of
\* the stop: Math.round(atan2(dLng, dLat) in degrees), made non-negative.
estimateTransitHeading(stop, destination) ==
  LET dLat == destination.latitude - stop.latitude
      dLng == destination.longitude - stop.longitude
  IN CASE dLng = 0 /\ dLat >= 0 -> 0
       [] dLng = 0 /\ dLat < 0 -> 180
       [] dLat = 0 /\ dLng > 0 -> 90
       [] dLat = 0 /\ dLng < 0 -> 270

\* estimateTravelTime: Math.round(minutes at 60 or 25 km/h, plus 5).
estimateTravelTime(distance, transportType) ==
  LET averageSpeed == IF transportType = "train" THEN 60 ELSE 25
  IN (2 * distance * 60 + 1000 * averageSpeed) \div (2 * 1000 * averageSpeed) + 5

typeOf(routeId) == IF Includes(routeId, "train") THEN "train" ELSE "bus"

\* createTransitOption: null when the spot has no stop of the arrival.
createTransitOption(arrival, waitingSpot, destinations, planId) ==
  LET stops == SelectSeq(waitingSpot.transitStops,
                         LAMBDA stop : stop.id = arrival.stopId)
  IN IF stops = <<>> THEN Null
     ELSE LET stop == Head(stops)
              distance(i) == calculateDistance(stop, destinations[i])
              nearest == CHOOSE i \in DOMAIN destinations :
                           \A j \in DOMAIN destinations :
                             distance(i) < distance(j)
                               \/ (distance(i) = distance(j) /\ i <= j)
          IN [id |-> arrival.routeId \o "-" \o arrival.stopId \o "-"
                       \o ToString(arrival.arrivalTime),
              type |-> typeOf(arrival.routeId),
              line |-> arrival.routeId,
              direction |-> arrival.destination,
              stopName |-> stop.name,
              arrivalTime |-> arrival.arrivalTime,
              destination |-> destinations[nearest].name,
              estimatedTravelTime |->
                estimateTravelTime(distance(nearest), typeOf(arrival.routeId)),
              matchingPlanIds |-> <<planId>>,
              distanceToDestination |-> distance(nearest),
              heading |-> estimateTransitHeading(stop, destinations[nearest])]

\* The diff of calculateHeadingScore, degrees; the score is 1 - diff / 180.
headingDiff(transitHeading, userHeading) ==
  LET diff == IF transitHeading >= userHeading
              THEN transitHeading - userHeading
              ELSE userHeading - transitHeading
  IN IF diff > 180 THEN 360 - diff ELSE diff

\* isRelevantDirection: 1 - diff / 180 > 0.3 in double arithmetic, which holds
\* up to diff = 126 (1 - 0.7 is 0.30000000000000004).
isRelevantDirection(transitHeading, userHeading) ==
  headingDiff(transitHeading, userHeading) <= 126

\* The comparator of the sort of getRecommendationsForPlan: positive when a
\* goes after b.
compareOptions(a, b, heading) ==
  LET diffA == headingDiff(a.heading, heading)
      diffB == headingDiff(b.heading, heading)
  IN IF (diffA - diffB) * 10 > 180 \/ (diffB - diffA) * 10 > 180
     THEN diffA - diffB
     ELSE a.arrivalTime - b.arrivalTime

\* Array.prototype.sort with a consistent comparator: a stable sort.
RECURSIVE insertOption(_, _, _)
insertOption(sorted, option, heading) ==
  IF sorted = <<>> THEN <<option>>
  ELSE IF compareOptions(sorted[Len(sorted)], option, heading) > 0
  THEN Append(insertOption(SubSeq(sorted, 1, Len(sorted) - 1), option, heading),
              sorted[Len(sorted)])
  ELSE Append(sorted, option)

RECURSIVE sortOptions(_, _)
sortOptions(options, heading) ==
  IF options = <<>> THEN <<>>
  ELSE insertOption(sortOptions(SubSeq(options, 1, Len(options) - 1), heading),
                    options[Len(options)], heading)

\* What `for (const arrival of arrivals)` yields arrivals with a stop for: the
\* items of an array; the characters of a string have no stopId.
arrivalsIn(arrivals) == IF arrivals.kind = "array" THEN arrivals.items ELSE <<>>

getRecommendationsForPlan(plan, heading, activeWaitingSpot, arrivals, currentTime) ==
  LET currentDestinations == getCurrentDestinations(plan, currentTime)
      items == arrivalsIn(arrivals)
      options == [i \in DOMAIN items |->
                    createTransitOption(items[i], activeWaitingSpot,
                                        currentDestinations, plan.id)]
  IN IF currentDestinations = <<>> THEN <<>>
     ELSE sortOptions(SelectSeq(options,
                                LAMBDA option :
                                  /\ option # Null
                                  /\ isRelevantDirection(option.heading, heading)),
                      heading)

\* The mapping of step 5 of getRecommendations: plan id -> options.
recommendationsOf(activePlans, args, arrivals) ==
  [kind |-> "object",
   entries |->
     [id \in {activePlans[i].id : i \in DOMAIN activePlans} |->
        LET last == CHOOSE i \in DOMAIN activePlans :
                      /\ activePlans[i].id = id
                      /\ \A j \in DOMAIN activePlans :
                           activePlans[j].id = id => j <= i
        IN getRecommendationsForPlan(activePlans[last], args.heading,
                                     args.activeWaitingSpot, arrivals,
                                     args.currentTime)]]

\* {}
EmptyMapping == [kind |-> "object", entries |-> Empty]

\* Destinations, due north and due south of the stops.
DestNorth == [id |-> "d1", name |-> "Office", latitude |-> 5000, longitude |-> 0]
DestSouth == [id |-> "d2", name |-> "Home", latitude |-> -5000, longitude |-> 0]

\* Travel plans: p1 is current on Mondays 08:00-09:00; p12 on Mondays
\* 08:00-08:30 and in a slot that wraps midnight; p3 is not active.
PlanP1 ==
  [id |-> "p1", isActive |-> TRUE, destinations |-> <<DestNorth>>,
   timeSlots |-> <<[dayOfWeek |-> 1, startTime |-> "08:00", endTime |-> "09:00",
                    destinationIds |-> <<"d1">>]>>]
PlanP12 ==
  [id |-> "p12", isActive |-> TRUE, destinations |-> <<DestNorth, DestSouth>>,
   timeSlots |-> <<[dayOfWeek |-> 1, startTime |-> "22:00", endTime |-> "02:00",
                    destinationIds |-> <<"d2">>],
                   [dayOfWeek |-> 1, startTime |-> "08:00", endTime |-> "08:30",
                    destinationIds |-> <<"d1", "d2">>]>>]
PlanP3 ==
  [id |-> "p3", isActive |-> FALSE, destinations |-> <<DestNorth>>,
   timeSlots |-> <<[dayOfWeek |-> 1, startTime |-> "08:00", endTime |-> "09:00",
                    destinationIds |-> <<"d1">>]>>]

\* Monday 08:30, when p1 and p12 are current, and Monday 10:00, when no plan is.
MondayMorning == [day |-> 1, hours |-> 8, minutes |-> 30]
MondayLate == [day |-> 1, hours |-> 10, minutes |-> 0]

Request(metres, plans, time) ==
  [currentLocation |-> [latitude |-> metres, longitude |-> 0], heading |-> 0,
   activeWaitingSpot |-> SpotA, travelPlans |-> plans, currentTime |-> time]

\* The arguments of the calls of getRecommendations: two positions in
\* different cells of the 3-decimal grid while the plans are current, a time
\* when none is, and a plan that is not active.
RecRequests ==
  {Request(0, <<PlanP1, PlanP12>>, MondayMorning),
   Request(100, <<PlanP1, PlanP12>>, MondayMorning),
   Request(0, <<PlanP1, PlanP12>>, MondayLate),
   Request(0, <<PlanP3>>, MondayMorning)}

\* Mutant of isCacheHit: the cached mapping is read but not returned.
isCacheHitNever(cachedRecommendations) == FALSE

\* if (cachedRecommendations)
isCacheHit(cachedRecommendations) == Truthy(cachedRecommendations)

\* Steps 5 and 6 of getRecommendations with `arrivals` in hand and the local
\* tier and lastSet as `cache` and `sets`: the mapping is computed and set,
\* up to the await of the remote write.
ComputeAndSet(c, call, cache, sets, arrivals) ==
  LET args == call.args
      activePlans == getActiveTravelPlans(args.travelPlans, args.currentTime)
      recommendations == recommendationsOf(activePlans, args, arrivals)
  IN /\ localCache' = setInLocalCache(cache, call.key, recommendations,
                                      TTL_TRAVEL_RECOMMENDATIONS, now)
     /\ lastSet' = Put(sets, call.key,
                       [data |-> recommendations,
                        ttl |-> TTL_TRAVEL_RECOMMENDATIONS, at |-> now])
     /\ calls' = [calls EXCEPT ![c] =
                    [call EXCEPT !.pc = "recs_set_remote",
                                 !.data = recommendations,
                                 !.ttl = TTL_TRAVEL_RECOMMENDATIONS]]

\* Step 4, getNearbyArrivals: getOrSet on the arrivals key, up to the await of
\* the remote tier; on a local hit the call goes on to steps 5 and 6.
NearbyArrivals(c, call, cache, sets) ==
  LET cacheKey == getTransitArrivalsKey(call.args.activeWaitingSpot.id)
      d == getFromLocalCache(cache, cacheKey, now)
  IN IF d # Null
     THEN ComputeAndSet(c, call, cache, sets, d)
     ELSE /\ localCache' = evictExpired(cache, cacheKey, now)
          /\ lastSet' = sets
          /\ calls' = [calls EXCEPT ![c] = [call EXCEPT !.pc = "arr_get_remote"]]

\* getRecommendations, up to its first await that suspends: with no current
\* plan it returns {}; on a local hit it returns the cached mapping.
GetRecommendations(c, args) ==
  /\ CanStart(c)
  /\ LET activePlans == getActiveTravelPlans(args.travelPlans, args.currentTime)
         locationHash == createLocationHash(args.currentLocation.latitude,
                                            args.currentLocation.longitude, 3)
         cacheKey ==
           getRecommendationsKey(
             Join([i \in DOMAIN activePlans |-> activePlans[i].id], ","),
             locationHash)
         d == getFromLocalCache(localCache, cacheKey, now)
         call == [Pending("getRecommendations", "recs_get_remote", cacheKey, Null, 0)
                    EXCEPT !.args = args]
     IN IF activePlans = <<>>
        THEN /\ calls' = [calls EXCEPT ![c] =
                            [Done("getRecommendations", "", EmptyMapping)
                               EXCEPT !.args = args]]
             /\ UNCHANGED <<localCache, lastSet>>
        ELSE IF d # Null
        THEN IF isCacheHit(d)
             THEN /\ calls' = [calls EXCEPT ![c] =
                                 [Done("getRecommendations", cacheKey, d)
                                    EXCEPT !.args = args]]
                  /\ UNCHANGED <<localCache, lastSet>>
             ELSE NearbyArrivals(c, call, localCache, lastSet)
        ELSE /\ calls' = [calls EXCEPT ![c] = call]
             /\ localCache' = evictExpired(localCache, cacheKey, now)
             /\ UNCHANGED lastSet
  /\ opsLeft' = opsLeft - 1
  /\ UNCHANGED <<geoVars, uiVars>>
  /\ UNCHANGED <<now, remoteStore, remoteUp>>

\* The remote get of the recommendation key answers.
RecsGetRemote(c) ==
  /\ calls[c].pc = "recs_get_remote"
  /\ \E outcome \in Outcomes :
       LET k == calls[c].key
           r == getFromRemoteCache(remoteStore, k, now, outcome)
           cache == IF r # Null
                    THEN setInLocalCache(localCache, k, r,
                                         TTL_TRAVEL_RECOMMENDATIONS, now)
                    ELSE localCache
           sets == IF r # Null THEN Drop(lastSet, {k}) ELSE lastSet
       IN IF r # Null /\ isCacheHit(r)
          THEN /\ localCache' = cache
               /\ lastSet' = sets
               /\ calls' = [calls EXCEPT ![c] = Return(calls[c], r)]
          ELSE NearbyArrivals(c, calls[c], cache, sets)
  /\ UNCHANGED <<geoVars, uiVars>>
  /\ UNCHANGED <<now, remoteStore, remoteUp, opsLeft>>

\* The remote get of the arrivals key answers.
ArrGetRemote(c) ==
  /\ calls[c].pc = "arr_get_remote"
  /\ \E outcome \in Outcomes :
       LET k == getTransitArrivalsKey(calls[c].args.activeWaitingSpot.id)
           r == getFromRemoteCache(remoteStore, k, now, outcome)
       IN IF r # Null
          THEN ComputeAndSet(c, calls[c],
                             setInLocalCache(localCache, k, r,
                                             TTL_TRAVEL_RECOMMENDATIONS, now),
                             Drop(lastSet, {k}), r)
          ELSE /\ calls' = [calls EXCEPT ![c] = [calls[c] EXCEPT !.pc = "arr_callback"]]
               /\ UNCHANGED <<localCache, lastSet>>
  /\ UNCHANGED <<geoVars, uiVars>>
  /\ UNCHANGED <<now, remoteStore, remoteUp, opsLeft>>

\* The producer of getNearbyArrivals resolves; set writes the local tier.
ArrCallbackResolve(c) ==
  /\ calls[c].pc = "arr_callback"
  /\ LET k == getTransitArrivalsKey(calls[c].args.activeWaitingSpot.id)
         arrivals == mockArrivals(calls[c].args.activeWaitingSpot, now)
     IN /\ localCache' =
             setInLocalCache(localCache, k, arrivals, TTL_TRANSIT_ARRIVALS, now)
        /\ lastSet' = Put(lastSet, k, [data |-> arrivals,
                                       ttl |-> TTL_TRANSIT_ARRIVALS, at |-> now])
        /\ calls' = [calls EXCEPT ![c] =
                       [calls[c] EXCEPT !.pc = "arr_set_remote", !.data = arrivals,
                                        !.ttl = TTL_TRANSIT_ARRIVALS,
                                        !.invoked = @ + 1]]
  /\ UNCHANGED <<geoVars, uiVars>>
  /\ UNCHANGED <<now, remoteStore, remoteUp, opsLeft>>

\* The producer rejects (the transit API it stands for fails): getOrSet,
\* getNearbyArrivals and getRecommendations reject.
ArrCallbackReject(c) ==
  /\ calls[c].pc = "arr_callback"
  /\ calls' = [calls EXCEPT ![c] =
                 [Return(calls[c], Null) EXCEPT
                    !.threw = TRUE, !.invoked = calls[c].invoked + 1]]
  /\ UNCHANGED <<geoVars, uiVars>>
  /\ UNCHANGED <<now, localCache, remoteStore, remoteUp, opsLeft, lastSet>>

\* The remote write of the arrivals answers: steps 5 and 6.
ArrSetRemote(c) ==
  /\ calls[c].pc = "arr_set_remote"
  /\ \E outcome \in Outcomes :
       remoteStore' =
         IF outcome = "ok"
         THEN handlerSet(remoteStore,
                         getTransitArrivalsKey(calls[c].args.activeWaitingSpot.id),
                         JSONstringify(calls[c].data), calls[c].ttl, now)
         ELSE remoteStore
  /\ ComputeAndSet(c, calls[c], localCache, lastSet, calls[c].data)
  /\ UNCHANGED <<geoVars, uiVars>>
  /\ UNCHANGED <<now, remoteUp, opsLeft>>

\* The remote write of the mapping answers: getRecommendations returns it.
RecsSetRemote(c) ==
  /\ calls[c].pc = "recs_set_remote"
  /\ \E outcome \in Outcomes :
       remoteStore' =
         IF outcome = "ok"
         THEN handlerSet(remoteStore, calls[c].key, JSONstringify(calls[c].data),
                         calls[c].ttl, now)
         ELSE remoteStore
  /\ calls' = [calls EXCEPT ![c] = Return(calls[c], calls[c].data)]
  /\ UNCHANGED <<geoVars, uiVars>>
  /\ UNCHANGED <<now, localCache, remoteUp, opsLeft, lastSet>>

Init ==
  /\ now = 0
  /\ localCache = Empty
  /\ remoteStore = Empty
  /\ remoteUp \in BOOLEAN
  /\ calls = [c \in Callers \cup OverlapCallers |-> IdleCall]
  /\ opsLeft = MaxOps
  /\ lastSet = Empty
  /\ currentLocation = Null
  /\ waitingSpots = <<>>
  /\ currentWaitingSpot = Null
  /\ isInWaitingSpot = FALSE
  /\ isWatchingLocation = FALSE
  /\ notifications = <<>>
  /\ component =
       [mounted |-> TRUE, rendered |-> FALSE, dirty |-> TRUE,
        isInWaitingSpot |-> FALSE, depsChanged |-> FALSE, refreshInterval |-> 0,
        shown |-> [isInWaitingSpot |-> FALSE, refreshInterval |-> 0],
        setupSees |-> 0, cleanupSees |-> 0, nextInterval |-> 1, fired |-> {}]
  /\ timers = {}
  /\ purchase =
       [isPurchasing |-> FALSE, shakeSees |-> FALSE, confirmDialogs |-> 0,
        retryDialogs |-> 0, pending |-> 0, started |-> 0]

Next ==
  \/ \E c \in Callers, k \in Keys : GetLocal(c, k)
  \/ \E c \in Callers, k \in Keys, o \in TtlOptions : GetOrSetLocal(c, k, o)
  \/ \E c \in Callers : GetRemote(c)
  \/ \E c \in Callers, v \in Values : CallbackResolve(c, v)
  \/ \E c \in Callers : CallbackReject(c)
  \/ \E c \in Callers, k \in Keys, v \in Values, o \in TtlOptions : SetLocal(c, k, v, o)
  \/ \E c \in Callers : SetRemote(c)
  \/ \E c \in Callers, k \in Keys : DeleteLocal(c, k)
  \/ \E c \in Callers : DeleteRemote(c)
  \/ \E c \in Callers, k \in Keys : ExistsLocal(c, k)
  \/ \E c \in Callers : ExistsRemote(c)
  \/ \E c \in Callers, p \in Patterns : InvalidatePattern(c, p)
  \/ \E c \in Callers : Clear(c)
  \/ Cleanup
  \/ Tick

Spec == Init /\ [][Next]_vars

\* Sets (with the default ttl, that of recommendations), reads and invalidations
\* over the recommendation keys.
NextInvalidate ==
  \/ \E c \in Callers, k \in RecommendationKeys, v \in Values : SetLocal(c, k, v, 0)
  \/ \E c \in Callers : SetRemote(c)
  \/ \E c \in Callers, k \in RecommendationKeys : GetLocal(c, k)
  \/ \E c \in Callers : GetRemote(c)
  \/ \E c \in Callers, p \in RecommendationPatterns : InvalidatePattern(c, p)
  \/ \E c \in Callers : Clear(c)
  \/ Tick

SpecInvalidate == Init /\ [][NextInvalidate]_vars

\* The location service: samples of the watch, position requests and
\* setWaitingSpots calls.
NextGeo ==
  \/ StartWatchingLocation
  \/ \E location \in Locations : WatchSample(location)
  \/ \E c \in Callers, location \in Locations : GetCurrentLocation(c, location)
  \/ \E c \in Callers, spots \in SpotLists : SetWaitingSpots(c, spots)
  \/ \E c \in Callers : SpotsSetRemote(c)

SpecGeo == Init /\ [][NextGeo]_vars

\* getRecommendations over the cache; clear empties the local tier between calls.
NextRec ==
  \/ \E c \in Callers, args \in RecRequests : GetRecommendations(c, args)
  \/ \E c \in Callers : RecsGetRemote(c)
  \/ \E c \in Callers : ArrGetRemote(c)
  \/ \E c \in Callers : ArrCallbackResolve(c)
  \/ \E c \in Callers : ArrCallbackReject(c)
  \/ \E c \in Callers : ArrSetRemote(c)
  \/ \E c \in Callers : RecsSetRemote(c)
  \/ \E c \in Callers : Clear(c)
  \/ Tick

SpecRec == Init /\ [][NextRec]_vars

\* The calls that take a producer: getOrSet with a producer of the caller's,
\* and getRecommendations, whose getNearbyArrivals passes one to getOrSet.
NextProducers ==
  \/ \E c \in Callers, k \in Keys, o \in TtlOptions : GetOrSetLocal(c, k, o)
  \/ \E c \in Callers : GetRemote(c)
  \/ \E c \in Callers, v \in Values : CallbackResolve(c, v)
  \/ \E c \in Callers : CallbackReject(c)
  \/ \E c \in Callers : SetRemote(c)
  \/ \E c \in Callers :
       GetRecommendations(c, Request(0, <<PlanP1, PlanP12>>, MondayMorning))
  \/ \E c \in Callers : RecsGetRemote(c)
  \/ \E c \in Callers : ArrGetRemote(c)
  \/ \E c \in Callers : ArrCallbackResolve(c)
  \/ \E c \in Callers : ArrCallbackReject(c)
  \/ \E c \in Callers : ArrSetRemote(c)
  \/ \E c \in Callers : RecsSetRemote(c)
  \/ \E c \in Callers : Clear(c)

SpecProducers == Init /\ [][NextProducers]_vars

\* ------------------------------------------------------- claims, the cache
\* Caller c starts a call of op in this step.
Started(c, op) ==
  /\ opsLeft' = opsLeft - 1
  /\ calls'[c].id = opsLeft
  /\ calls'[c].op = op

\* Caller c's call of op returns in this step, having been suspended.
Resumed(c, op) ==
  /\ calls[c].op = op
  /\ calls[c].pc \notin {"idle", "done"}
  /\ calls'[c].pc = "done"

\* Caller c's call of op returns (or rejects) in this step.
Completed(c, op) ==
  \/ Started(c, op) /\ calls'[c].pc = "done"
  \/ Resumed(c, op)

\* Milliseconds since the set recorded in lastSet[k].
Elapsed(k, t) == t - lastSet[k].at

\* C1 (as amended): after set(k, v, {ttl: T}) with v non-null, and while nothing
\* else has written or removed k's local entry, a get(k) started at an elapsed
\* time of at most T seconds (T seconds exactly included) returns v at once; one
\* started later finds the local entry expired, deletes it and asks the remote tier.
TTLExpiry ==
  [][\A c \in Callers : \A k \in DOMAIN lastSet :
       (Started(c, "get") /\ calls'[c].key = k /\ lastSet[k].data # Null) =>
         IF Elapsed(k, now) <= lastSet[k].ttl * MsPerSecond
         THEN /\ calls'[c].pc = "done"
              /\ calls'[c].ret = lastSet[k].data
              /\ ~calls'[c].threw
         ELSE /\ calls'[c].pc = "get_remote"
              /\ k \notin DOMAIN localCache']_vars

\* C1, witness: a get started exactly T seconds after the set has returned v.
TTLExpiryWitness ==
  \E c \in Callers : \E k \in DOMAIN lastSet :
    /\ calls[c].op = "get" /\ calls[c].pc = "done" /\ calls[c].key = k
    /\ lastSet[k].data # Null
    /\ calls[c].ret = lastSet[k].data
    /\ Elapsed(k, calls[c].at) = lastSet[k].ttl * MsPerSecond

\* C1 as stated: get returns v at every elapsed time below T seconds and absent
\* at every elapsed time of T seconds or more.
TTLExpiryAsStated ==
  [][\A c \in Callers : \A k \in DOMAIN lastSet :
       /\ (Started(c, "get") /\ calls'[c].key = k /\ lastSet[k].data # Null
             /\ Elapsed(k, now) < lastSet[k].ttl * MsPerSecond)
            => (calls'[c].pc = "done" /\ calls'[c].ret = lastSet[k].data)
       /\ (Completed(c, "get") /\ calls'[c].key = k
             /\ Elapsed(k, calls'[c].at) >= lastSet[k].ttl * MsPerSecond)
            => calls'[c].ret = Null]_vars

\* C2: while every remote operation fails, a get(k) started less than T seconds
\* after set(k, v, {ttl: T}) with v non-null returns v, whichever step it returns in.
TierFallback ==
  [][\A c \in Callers : \A k \in DOMAIN lastSet :
       (~remoteUp /\ Completed(c, "get") /\ calls'[c].key = k
          /\ lastSet[k].data # Null
          /\ Elapsed(k, calls'[c].at) < lastSet[k].ttl * MsPerSecond)
        => (calls'[c].ret = lastSet[k].data /\ ~calls'[c].threw)]_vars

\* C2, witness: the remote tier is down, it holds nothing, and a get has returned
\* the value of the set before it.
TierFallbackWitness ==
  \E c \in Callers : \E k \in DOMAIN lastSet :
    /\ ~remoteUp /\ remoteStore = Empty
    /\ calls[c].op = "get" /\ calls[c].pc = "done" /\ calls[c].key = k
    /\ lastSet[k].data = Undefined
    /\ calls[c].ret = Undefined
    /\ lastSet[k].at <= calls[c].at

RemoteFailuresContained ==
  [][\A c \in Callers :
       /\ \A op \in {"get", "set", "delete", "exists"} :
            Completed(c, op) => ~calls'[c].threw
       /\ \A op \in {"set", "delete"} :
            Resumed(c, op) => (calls'[c].ret = True /\ localCache' = localCache)
       /\ Started(c, "set") =>
            /\ calls'[c].key \in DOMAIN localCache'
            /\ localCache'[calls'[c].key].data = calls'[c].data
       /\ Started(c, "delete") => calls'[c].key \notin DOMAIN localCache']_vars

\* C4, witness: a set has returned true although the remote tier is down, and
\* the local tier holds its value.
RemoteFailuresContainedWitness ==
  \E c \in Callers :
    /\ ~remoteUp
    /\ calls[c].op = "set" /\ calls[c].pc = "done" /\ calls[c].ret = True
    /\ calls[c].key \in DOMAIN localCache
    /\ localCache[calls[c].key].data = ObjA
    /\ localCache[calls[c].key].timestamp = calls[c].at

\* "s is a literal substring of key": key = prefix \o s \o suffix.
IsSubstring(s, key) ==
  \E i \in 0..Len(key) : \E j \in i..Len(key) : SubSeq(key, i + 1, j) = s

\* C6: invalidatePattern(s) leaves in the local tier exactly the keys that do not
\* contain s as a literal substring, each with its entry as it was; it returns
\* without awaiting the remote tier, which it leaves alone.
InvalidatePatternFrame ==
  [][\A c \in Callers :
       Started(c, "invalidatePattern") =>
         /\ DOMAIN localCache' =
              {k \in DOMAIN localCache : ~IsSubstring(calls'[c].key, k)}
         /\ \A k \in DOMAIN localCache' : localCache'[k] = localCache[k]
         /\ remoteStore' = remoteStore
         /\ calls'[c].pc = "done"]_vars

\* C6, witness: both recommendation keys were set and
\* invalidatePattern("travel_recommendations:p1") has emptied the local tier.
InvalidatePatternFrameWitness ==
  \E c \in Callers :
    /\ calls[c].op = "invalidatePattern" /\ calls[c].pc = "done"
    /\ calls[c].key = "travel_recommendations:p1"
    /\ DOMAIN remoteStore = RecommendationKeys
    /\ localCache = Empty

\* ------------------------------------------- claims, the location service
\* A sample of the watch is handled in this step.
Sampled == opsLeft' = opsLeft - 1 /\ calls' = calls

\* checkWaitingSpots runs in this step: on a sample, or when setWaitingSpots
\* resumes from its cache write.
CheckRan == Sampled \/ \E c \in Callers : Resumed(c, "setWaitingSpots")

\* The spot contains the location: the distance to its centre is at most its radius.
Contains(spot, location) ==
  calculateDistance(location, [latitude |-> spot.latitude,
                               longitude |-> spot.longitude]) <= spot.radius

\* The i-th spot of the list is the first that contains the location.
FirstContaining(list, location, i) ==
  /\ Contains(list[i], location)
  /\ \A j \in 1..(i - 1) : ~Contains(list[j], location)

\* C7: after checkWaitingSpots, the matched spot is the first spot of the active
\* list, in list order, that contains the sample, and no spot is matched if none
\* contains it; nearness and radius play no part.
GeofenceFirstMatch ==
  [][CheckRan =>
       /\ (\A i \in DOMAIN waitingSpots' :
             ~Contains(waitingSpots'[i], currentLocation'))
            => (currentWaitingSpot' = Null /\ ~isInWaitingSpot')
       /\ \A i \in DOMAIN waitingSpots' :
            FirstContaining(waitingSpots', currentLocation', i)
              => /\ isInWaitingSpot'
                 /\ IdOf(currentWaitingSpot') = waitingSpots'[i].id]_vars

\* C7, witness: with A listed before B, the check at the position inside both
\* and nearer to B (whose radius is the smaller) has replaced B by A.
GeofenceFirstMatchWitness ==
  /\ waitingSpots = <<SpotA, SpotB>>
  /\ currentLocation = [latitude |-> 30, longitude |-> 0]
  /\ currentWaitingSpot = SpotA
  /\ notifications = <<[isInSpot |-> TRUE, spot |-> SpotB],
                       [isInSpot |-> TRUE, spot |-> SpotA]>>
  /\ \E c \in Callers : calls[c].op = "setWaitingSpots" /\ calls[c].pc = "done"

\* C8: a step that runs checkWaitingSpots delivers one notification, after those
\* delivered before, exactly when the inside flag it computes differs from the
\* stored one or the id of the spot it matches differs from the stored spot's;
\* otherwise, and in every other step, nothing is delivered.
GeofenceEmission ==
  [][IF CheckRan
     THEN LET list == waitingSpots'
              location == currentLocation'
              inside == \E i \in DOMAIN list : Contains(list[i], location)
              id == IF inside
                    THEN list[CHOOSE i \in DOMAIN list :
                                FirstContaining(list, location, i)].id
                    ELSE "undefined"
          IN IF inside # isInWaitingSpot \/ id # IdOf(currentWaitingSpot)
             THEN /\ Len(notifications') = Len(notifications) + 1
                  /\ SubSeq(notifications', 1, Len(notifications)) = notifications
                  /\ notifications'[Len(notifications')].isInSpot = inside
                  /\ IdOf(notifications'[Len(notifications')].spot) = id
             ELSE notifications' = notifications
     ELSE notifications' = notifications]_vars

\* C8, witness: entering the edited A, then B by a change of the matched id with
\* no flip of the inside flag, each notified once and in that order.
GeofenceEmissionWitness ==
  /\ notifications = <<[isInSpot |-> TRUE, spot |-> SpotAEdited],
                       [isInSpot |-> TRUE, spot |-> SpotB]>>
  /\ isInWaitingSpot
  /\ currentWaitingSpot = SpotB
  /\ currentLocation = [latitude |-> 100, longitude |-> 0]
  /\ isWatchingLocation

\* ------------------------------------ claims, the recommendation service
\* C5: when the producer rejects, getOrSet rejects and the step writes nothing
\* to either tier; when the producer of the arrivals rejects inside
\* getRecommendations, getRecommendations rejects, the step writes nothing to
\* either tier and the local tier holds no entry under the recommendation key.
ProducerRejectionPropagates ==
  [][\A c \in Callers :
       /\ (calls[c].op = "getOrSet" /\ calls[c].pc = "callback"
             /\ calls'[c].pc = "done")
            => /\ calls'[c].threw
               /\ calls'[c].invoked = 1
               /\ localCache' = localCache
               /\ remoteStore' = remoteStore
       /\ (calls[c].op = "getRecommendations" /\ calls[c].pc = "arr_callback"
             /\ calls'[c].pc = "done")
            => /\ calls'[c].threw
               /\ calls'[c].invoked = 1
               /\ localCache' = localCache
               /\ remoteStore' = remoteStore
               /\ calls[c].key \notin DOMAIN localCache'
               /\ getTransitArrivalsKey(calls[c].args.activeWaitingSpot.id)
                    \notin DOMAIN localCache']_vars

\* C5, witness: getRecommendations has rejected after its producer was
\* invoked, and neither tier holds anything.
ProducerRejectionPropagatesWitness ==
  \E c \in Callers :
    /\ calls[c].op = "getRecommendations" /\ calls[c].pc = "done"
    /\ calls[c].threw
    /\ calls[c].invoked = 1
    /\ localCache = Empty
    /\ remoteStore = Empty
    /\ remoteUp

\* The plan is current at the time: it is active and one of its slots is of
\* the time's day of the week with a window that contains the clock time.
IsCurrent(plan, time) ==
  /\ plan.isActive
  /\ \E i \in DOMAIN plan.timeSlots :
       LET t == time.hours * 60 + time.minutes
           start == timeToMinutes(plan.timeSlots[i].startTime)
           end == timeToMinutes(plan.timeSlots[i].endTime)
       IN /\ plan.timeSlots[i].dayOfWeek = time.day
          /\ \/ start <= end /\ start <= t /\ t <= end
             \/ start > end /\ (t >= start \/ t <= end)

NoCurrentPlan(args) ==
  \A i \in DOMAIN args.travelPlans :
    ~IsCurrent(args.travelPlans[i], args.currentTime)

\* C9: a getRecommendations call whose plans include none that is current
\* returns the empty mapping in the step in which it starts, without invoking
\* the producer and with both tiers as they were.
NoCurrentPlanNoCache ==
  [][\A c \in Callers :
       (Started(c, "getRecommendations") /\ NoCurrentPlan(calls'[c].args))
         => /\ calls'[c].pc = "done"
            /\ calls'[c].ret = EmptyMapping
            /\ ~calls'[c].threw
            /\ calls'[c].invoked = 0
            /\ localCache' = localCache
            /\ remoteStore' = remoteStore]_vars

\* C9, witness: with p1 and p12 in the plans, a mapping for them cached and
\* the clock at 10:00, getRecommendations has returned the empty mapping.
NoCurrentPlanNoCacheWitness ==
  \E c \in Callers :
    /\ calls[c].op = "getRecommendations" /\ calls[c].pc = "done"
    /\ calls[c].args = Request(0, <<PlanP1, PlanP12>>, MondayLate)
    /\ calls[c].ret = EmptyMapping
    /\ getRecommendationsKey("p1,p12", "0.000,0.000") \in DOMAIN localCache

\* The key of the call: the ids of the current plans, in the order of the
\* plans, and the 3-decimal hash of the position.
KeyOf(args) ==
  getRecommendationsKey(
    Join(LET current == SelectSeq(args.travelPlans,
                                  LAMBDA plan : IsCurrent(plan, args.currentTime))
         IN [i \in DOMAIN current |-> current[i].id], ","),
    createLocationHash(args.currentLocation.latitude,
                       args.currentLocation.longitude, 3))

OrderRequests ==
  {Request(0, <<PlanP1, PlanP12>>, MondayMorning),
   Request(0, <<PlanP12, PlanP1>>, MondayMorning)}

\* getRecommendations calls with arguments from `requests`, and their steps.
NextRequests(requests) ==
  \/ \E c \in Callers, args \in requests : GetRecommendations(c, args)
  \/ \E c \in Callers : RecsGetRemote(c)
  \/ \E c \in Callers : ArrGetRemote(c)
  \/ \E c \in Callers : ArrCallbackResolve(c)
  \/ \E c \in Callers : ArrCallbackReject(c)
  \/ \E c \in Callers : ArrSetRemote(c)
  \/ \E c \in Callers : RecsSetRemote(c)

\* getRecommendations with the plans in either order.
SpecKeyOrder == Init /\ [][NextRequests(OrderRequests)]_vars

\* The ids of the plans of the call that are current.
CurrentIds(args) ==
  {args.travelPlans[i].id :
     i \in {j \in DOMAIN args.travelPlans :
              IsCurrent(args.travelPlans[j], args.currentTime)}}

\* The two calls have the same current plans and the same cell of the
\* 3-decimal grid.
SamePlansAndBucket(a, b) ==
  /\ CurrentIds(a) = CurrentIds(b)
  /\ createLocationHash(a.currentLocation.latitude,
                        a.currentLocation.longitude, 3)
       = createLocationHash(b.currentLocation.latitude,
                            b.currentLocation.longitude, 3)

\* C11 as stated: calls with the same current plans and the same location
\* bucket have the same key whatever the order of the plans, so a call that
\* starts while the local tier holds, not expired, the mapping stored by a
\* call with the same plans in another order returns that mapping at once.
KeyOrderIndependent ==
  [][\A c \in Callers : \A other \in OrderRequests :
       LET args == calls'[c].args
           k == KeyOf(other)
       IN (/\ Started(c, "getRecommendations")
           /\ SamePlansAndBucket(args, other)
           /\ k \in DOMAIN localCache
           /\ localCache[k].data.kind = "object"
           /\ now - localCache[k].timestamp <= localCache[k].ttl * MsPerSecond)
          => /\ calls'[c].key = k
             /\ calls'[c].pc = "done"
             /\ calls'[c].ret = localCache[k].data
             /\ calls'[c].invoked = 0]_vars

\* --------------------------------------------- claims, the heading filter
\* User headings around the two boundaries: the destination of p1 is due
\* north of the stop (transit heading 0), so the angular difference is the
\* user's heading.
Headings == {0, 108, 109, 126, 127, 180}

HeadingRequests ==
  {[Request(0, <<PlanP1>>, MondayMorning) EXCEPT !.heading = h] : h \in Headings}

\* getRecommendations under each of the user headings.
SpecHeading == Init /\ [][NextRequests(HeadingRequests)]_vars

\* Caller c's getRecommendations computes its mapping in this step.
Computed(c) ==
  /\ calls[c].pc # "recs_set_remote"
  /\ calls'[c].pc = "recs_set_remote"

\* C12 as stated: every option of a mapping that getRecommendations computes
\* has an angular difference to the user's heading of at most 108 degrees; an
\* option at 109 degrees or more is not kept.
HeadingWithin108 ==
  [][\A c \in Callers :
       Computed(c) =>
         LET entries == calls'[c].data.entries IN
         \A id \in DOMAIN entries : \A i \in DOMAIN entries[id] :
           headingDiff(entries[id][i].heading, calls'[c].args.heading) <= 108]_vars

\* ------------------------------------------------- claims, the time slots
\* Clock times as minutes since midnight: the ends of the day, the ends of the
\* windows 08:00-10:00, 08:00-08:30 and 22:00-02:00, and times inside and
\* outside them.
ClockMinutes == {0, 60, 120, 480, 510, 600, 1320, 1410, 1439}

\* The HH:MM string of each clock time, evaluated once.
clockOf ==
  [m \in ClockMinutes |-> formatTime([hours |-> m \div 60, minutes |-> m % 60])]

\* A call of isTimeInRange on the strings of three clock times.
IsTimeInRange(c, t, start, end) ==
  /\ CanStart(c)
  /\ calls' = [calls EXCEPT ![c] =
                 [Done("isTimeInRange", "",
                       IF isTimeInRange(clockOf[t], clockOf[start], clockOf[end])
                       THEN True ELSE False)
                    EXCEPT !.args = <<clockOf[t], clockOf[start], clockOf[end]>>]]
  /\ opsLeft' = opsLeft - 1
  /\ UNCHANGED <<geoVars, uiVars>>
  /\ UNCHANGED <<now, localCache, remoteStore, remoteUp, lastSet>>

\* Plans of one slot: active or not, on Monday or Tuesday, with a window
\* within the day or one that wraps midnight.
SlotPlans ==
  {[id |-> "p", isActive |-> active, destinations |-> <<DestNorth>>,
    timeSlots |-> <<[dayOfWeek |-> day, startTime |-> window[1],
                     endTime |-> window[2], destinationIds |-> <<"d1">>]>>] :
     active \in BOOLEAN, day \in {1, 2},
     window \in {<<"22:00", "02:00">>, <<"08:00", "10:00">>}}

\* A call of getActiveTravelPlans on one plan (of one slot, or p12 with its
\* two) at a day and clock time.
GetActiveTravelPlans(c, plan, day, t) ==
  /\ CanStart(c)
  /\ LET time == [day |-> day, hours |-> t \div 60, minutes |-> t % 60]
     IN calls' = [calls EXCEPT ![c] =
                    [Done("getActiveTravelPlans", "",
                          ArrayOf(getActiveTravelPlans(<<plan>>, time)))
                       EXCEPT !.args = [travelPlans |-> <<plan>>,
                                        currentTime |-> time]]]
  /\ opsLeft' = opsLeft - 1
  /\ UNCHANGED <<geoVars, uiVars>>
  /\ UNCHANGED <<now, localCache, remoteStore, remoteUp, lastSet>>

NextSlots ==
  \/ \E c \in Callers, t \in ClockMinutes, start \in ClockMinutes,
        end \in ClockMinutes : IsTimeInRange(c, t, start, end)
  \/ \E c \in Callers, plan \in SlotPlans \cup {PlanP12}, day \in {1, 2},
        t \in ClockMinutes : GetActiveTravelPlans(c, plan, day, t)

SpecSlots == Init /\ [][NextSlots]_vars

\* The clock time, in minutes since midnight, that an HH:MM string writes.
MinutesOfClock(timeStr) == CHOOSE m \in ClockMinutes : clockOf[m] = timeStr

\* The window from start to end contains t, all in minutes since midnight.
InWindow(t, start, end) ==
  \/ start <= end /\ start <= t /\ t <= end
  \/ start > end /\ (t >= start \/ t <= end)

\* C13: isTimeInRange(t, start, end) is true exactly when the window contains
\* t: start <= t <= end when start <= end, and t >= start or t <= end when
\* start > end; getActiveTravelPlans keeps a plan exactly when it is active
\* and one of its slots is of the day of the time with a window that contains
\* the clock time.
TimeSlotSemantics ==
  [][\A c \in Callers :
       /\ Started(c, "isTimeInRange") =>
            LET a == calls'[c].args IN
            calls'[c].ret =
              IF InWindow(MinutesOfClock(a[1]), MinutesOfClock(a[2]),
                          MinutesOfClock(a[3]))
              THEN True ELSE False
       /\ Started(c, "getActiveTravelPlans") =>
            LET plan == calls'[c].args.travelPlans[1]
                time == calls'[c].args.currentTime
                current ==
                  /\ plan.isActive
                  /\ \E i \in DOMAIN plan.timeSlots :
                       /\ plan.timeSlots[i].dayOfWeek = time.day
                       /\ InWindow(time.hours * 60 + time.minutes,
                                   MinutesOfClock(plan.timeSlots[i].startTime),
                                   MinutesOfClock(plan.timeSlots[i].endTime))
            IN calls'[c].ret = ArrayOf(IF current THEN <<plan>> ELSE <<>>)]_vars

\* C13, witness: isTimeInRange has found 01:00 inside the window 22:00-02:00,
\* which wraps midnight.
TimeSlotSemanticsWitness ==
  \E c \in Callers :
    /\ calls[c].op = "isTimeInRange" /\ calls[c].pc = "done"
    /\ calls[c].args = <<"01:00", "22:00", "02:00">>
    /\ calls[c].ret = True

\* ------------------------------------------- the invalidation coordinator
Users == {"u1", "u12"}

\* Keys of the user namespaces and one of another namespace.
UserKeys ==
  {getRoutePlansKey(u) : u \in Users}
    \cup {"user_locations:" \o u : u \in Users}
    \cup {getWaitingSpotsKey(createLocationHash(0, 0, 2))}

\* invalidateUserData, up to the await of the remote delete of
\* invalidateRoutePlans: the route plans key has left the local tier.
InvalidateUserData(c, userId) ==
  /\ CanStart(c)
  /\ LET cacheKey == getRoutePlansKey(userId)
     IN /\ localCache' = Drop(localCache, {cacheKey})
        /\ lastSet' = Drop(lastSet, {cacheKey})
        /\ calls' = [calls EXCEPT ![c] =
                       [Pending("invalidateUserData", "inv_del_remote",
                                cacheKey, Null, 0)
                          EXCEPT !.args = <<userId>>]]
  /\ opsLeft' = opsLeft - 1
  /\ UNCHANGED <<geoVars, uiVars>>
  /\ UNCHANGED <<now, remoteStore, remoteUp>>

\* Mutant of InvalidateDelRemote: invalidateUserData ends with the delete.
InvalidateDelRemoteOnly(c) ==
  /\ calls[c].pc = "inv_del_remote"
  /\ \E outcome \in Outcomes :
       remoteStore' =
         IF outcome = "ok" THEN handlerDel(remoteStore, calls[c].key)
         ELSE remoteStore
  /\ calls' = [calls EXCEPT ![c] = Return(calls[c], Undefined)]
  /\ UNCHANGED <<geoVars, uiVars>>
  /\ UNCHANGED <<now, localCache, remoteUp, opsLeft, lastSet>>

\* The remote delete of an invalidation answers (delete returns whatever the
\* outcome); invalidateUserData then sweeps the user's location keys, and the
\* invalidation returns.
InvalidateDelRemote(c) ==
  /\ calls[c].pc = "inv_del_remote"
  /\ \E outcome \in Outcomes :
       remoteStore' =
         IF outcome = "ok" THEN handlerDel(remoteStore, calls[c].key)
         ELSE remoteStore
  /\ LET sweeps == calls[c].op = "invalidateUserData"
         pattern == "user_locations:" \o calls[c].args[1]
     IN /\ localCache' = IF sweeps
                         THEN invalidatePattern(localCache, pattern)
                         ELSE localCache
        /\ lastSet' = IF sweeps
                      THEN Drop(lastSet, Matching(lastSet, pattern))
                      ELSE lastSet
  /\ calls' = [calls EXCEPT ![c] = Return(calls[c], Undefined)]
  /\ UNCHANGED <<geoVars, uiVars>>
  /\ UNCHANGED <<now, remoteUp, opsLeft>>

\* Sets over the user keys and invalidateUserData.
NextUserData ==
  \/ \E c \in Callers, k \in UserKeys : SetLocal(c, k, ObjA, 0)
  \/ \E c \in Callers : SetRemote(c)
  \/ \E c \in Callers, u \in Users : InvalidateUserData(c, u)
  \/ \E c \in Callers : InvalidateDelRemote(c)

SpecUserData == Init /\ [][NextUserData]_vars

\* C14: invalidateUserData(u) removes route_plans:u from the local tier when
\* it starts and nothing else; when it completes, the local tier holds
\* neither route_plans:u nor a key that contains user_locations:u, and every
\* key that does not contain user_locations:u is there as it was.
UserDataInvalidated ==
  [][\A c \in Callers :
       /\ Started(c, "invalidateUserData") =>
            localCache' = Drop(localCache, {getRoutePlansKey(calls'[c].args[1])})
       /\ Resumed(c, "invalidateUserData") =>
            LET u == calls[c].args[1]
                s == "user_locations:" \o u
            IN /\ getRoutePlansKey(u) \notin DOMAIN localCache'
               /\ \A k \in DOMAIN localCache' : ~IsSubstring(s, k)
               /\ \A k \in DOMAIN localCache :
                    ~IsSubstring(s, k)
                      => (k \in DOMAIN localCache' /\ localCache'[k] = localCache[k])]_vars

\* C14, witness: user_locations:u1 and the waiting spots key were set (the
\* remote tier, which the sweep leaves alone, still holds the former), and
\* after invalidateUserData("u1") the local tier holds the latter alone.
UserDataInvalidatedWitness ==
  \E c \in Callers :
    /\ calls[c].op = "invalidateUserData" /\ calls[c].pc = "done"
    /\ calls[c].args = <<"u1">>
    /\ "user_locations:u1" \in DOMAIN remoteStore
    /\ DOMAIN localCache = {getWaitingSpotsKey(createLocationHash(0, 0, 2))}

\* invalidateRecommendations: one sweep of the local tier, no await that
\* suspends.
InvalidateRecommendations(c, planId) ==
  /\ CanStart(c)
  /\ LET pattern == "travel_recommendations:" \o planId
     IN /\ localCache' = invalidatePattern(localCache, pattern)
        /\ lastSet' = Drop(lastSet, Matching(lastSet, pattern))
        /\ calls' = [calls EXCEPT ![c] =
                       [Done("invalidateRecommendations", pattern, Undefined)
                          EXCEPT !.args = <<planId>>]]
  /\ opsLeft' = opsLeft - 1
  /\ UNCHANGED <<geoVars, uiVars>>
  /\ UNCHANGED <<now, remoteStore, remoteUp>>

\* invalidateLocationData: two sweeps of the local tier, one with the
\* 3-decimal hash and one with the 2-decimal hash.
InvalidateLocationData(c, location) ==
  /\ CanStart(c)
  /\ LET locationHash ==
           createLocationHash(location.latitude, location.longitude, 3)
         areaHash == createLocationHash(location.latitude, location.longitude, 2)
         recommendations == "travel_recommendations:*:" \o locationHash
         spots == "waiting_spots:" \o areaHash
     IN /\ localCache' =
             invalidatePattern(invalidatePattern(localCache, recommendations),
                               spots)
        /\ lastSet' = Drop(lastSet, Matching(lastSet, recommendations)
                                      \cup Matching(lastSet, spots))
        /\ calls' = [calls EXCEPT ![c] =
                       [Done("invalidateLocationData", "", Undefined)
                          EXCEPT !.args = <<location>>]]
  /\ opsLeft' = opsLeft - 1
  /\ UNCHANGED <<geoVars, uiVars>>
  /\ UNCHANGED <<now, remoteStore, remoteUp>>

\* invalidateTransitArrivals, up to the await of the remote delete.
InvalidateTransitArrivals(c, stopId) ==
  /\ CanStart(c)
  /\ LET cacheKey == getTransitArrivalsKey(stopId)
     IN /\ localCache' = Drop(localCache, {cacheKey})
        /\ lastSet' = Drop(lastSet, {cacheKey})
        /\ calls' = [calls EXCEPT ![c] =
                       [Pending("invalidateTransitArrivals", "inv_del_remote",
                                cacheKey, Null, 0)
                          EXCEPT !.args = <<stopId>>]]
  /\ opsLeft' = opsLeft - 1
  /\ UNCHANGED <<geoVars, uiVars>>
  /\ UNCHANGED <<now, remoteStore, remoteUp>>

\* Calls of getRecommendations at spot A: the two plans in either order, and
\* a position in another cell of the 3-decimal grid.
CoordinatorRequests ==
  OrderRequests \cup {Request(100, <<PlanP1, PlanP12>>, MondayMorning)}

\* The coordinator beside the services whose keys it invalidates:
\* getRecommendations, setWaitingSpots at the position (0, 0), and the
\* invalidations of a plan, of a position and of the stop of spot A.
NextCoordinator ==
  \/ NextRequests(CoordinatorRequests)
  \/ \E c \in Callers :
       GetCurrentLocation(c, [latitude |-> 0, longitude |-> 0])
  \/ \E c \in Callers : SetWaitingSpots(c, <<SpotA>>)
  \/ \E c \in Callers : SpotsSetRemote(c)
  \/ \E c \in Callers, p \in {"p1", "p12"} : InvalidateRecommendations(c, p)
  \/ \E c \in Callers :
       InvalidateLocationData(c, [latitude |-> 0, longitude |-> 0])
  \/ \E c \in Callers : InvalidateTransitArrivals(c, Stop1.id)
  \/ \E c \in Callers : InvalidateDelRemote(c)

SpecCoordinator == Init /\ [][NextCoordinator]_vars

\* C15 as stated: when invalidateRecommendations(p) completes, the local tier
\* holds no key that getRecommendations writes for a list of current plans
\* with p in it, wherever p stands in the list.
PlanRecommendationsEvicted ==
  [][\A c \in Callers :
       Completed(c, "invalidateRecommendations") =>
         \A args \in CoordinatorRequests :
           calls'[c].args[1] \in CurrentIds(args)
             => KeyOf(args) \notin DOMAIN localCache']_vars

\* C16 as stated: when invalidateLocationData(lat, lng) completes, the local
\* tier holds no key that getRecommendations writes for a position with the
\* 3-decimal hash of (lat, lng), and not the key that setWaitingSpots writes
\* for the 2-decimal hash of (lat, lng).
LocationDataSwept ==
  [][\A c \in Callers :
       Completed(c, "invalidateLocationData") =>
         LET location == calls'[c].args[1] IN
         /\ \A args \in CoordinatorRequests :
              createLocationHash(args.currentLocation.latitude,
                                 args.currentLocation.longitude, 3)
                = createLocationHash(location.latitude, location.longitude, 3)
              => KeyOf(args) \notin DOMAIN localCache'
         /\ getWaitingSpotsKey(createLocationHash(location.latitude,
                                                  location.longitude, 2))
              \notin DOMAIN localCache']_vars

\* ------------------------------------------------- claims, key injectivity
\* Calls of getRecommendations whose ids hold the separators of the keys: one
\* plan "a,b" against the plans "a" and "b", and a waiting spot whose id is
\* the id of its stop.
KeyRequests ==
  LET plan(id) == [PlanP1 EXCEPT !.id = id]
  IN {Request(0, <<plan("a,b")>>, MondayMorning),
      Request(0, <<plan("a"), plan("b")>>, MondayMorning),
      [Request(100, <<plan("a")>>, MondayMorning)
         EXCEPT !.activeWaitingSpot.id = Stop1.id]}

SpecKeys == Init /\ [][NextRequests(KeyRequests)]_vars

\* C17 as stated, for the recommendation keys: distinct lists of plan ids
\* have distinct keys, so the mapping that a getRecommendations call returns
\* is a mapping of its own current plans.
RecommendationKeysInjective ==
  \A c \in Callers :
    (/\ calls[c].op = "getRecommendations" /\ calls[c].pc = "done"
     /\ calls[c].ret.kind = "object")
      => DOMAIN calls[c].ret.entries = CurrentIds(calls[c].args)

\* C17 as stated, for the arrivals keys: the key of the arrivals of the
\* waiting spot of a call is not the key of the arrivals of a stop.
ArrivalsKeysInjective ==
  \A c \in Callers :
    calls[c].op = "getRecommendations" =>
      LET spot == calls[c].args.activeWaitingSpot IN
      \A i \in DOMAIN spot.transitStops :
        getTransitArrivalsKey(spot.id)
          # getTransitArrivalsKey(spot.transitStops[i].id)

\* C17 as stated: no two distinct resources share a key.
KeysInjective == RecommendationKeysInjective /\ ArrivalsKeysInjective

\* The ids of the stops of the waiting spot.
StopIds(spot) == {spot.transitStops[i].id : i \in DOMAIN spot.transitStops}

\* C18 as stated: once invalidateTransitArrivals(stopId) has completed for a
\* stop of waiting spot S, the local tier holds no arrivals that a
\* getRecommendations call for S would take from it in place of invoking the
\* producer.
StaleArrivalsEvicted ==
  \A c \in Callers :
    (calls[c].op = "invalidateTransitArrivals" /\ calls[c].pc = "done") =>
      \A args \in CoordinatorRequests :
        calls[c].args[1] \in StopIds(args.activeWaitingSpot) =>
          getFromLocalCache(localCache,
                            getTransitArrivalsKey(args.activeWaitingSpot.id),
                            now) = Null

\* ------------------------------- the TransitRecommendations component
\* Intervals that one behaviour may create.
MaxIntervals == 4

\* clearRefreshInterval as created in a render whose refreshInterval was
\* `seen` (0 is null): with a truthy `seen` it clears that interval and sets
\* the state to null. `ui` is the live intervals and the refreshInterval that
\* the next render will see.
clearRefreshInterval(seen, ui) ==
  IF seen # 0
  THEN [timers |-> ui.timers \ {seen}, refreshInterval |-> 0]
  ELSE ui

\* setupRefreshInterval as created in a render whose refreshInterval was
\* `seen`: it clears that interval if truthy, creates the interval `id` and
\* sets the state to it.
setupRefreshInterval(seen, ui, id) ==
  [timers |-> (IF seen # 0 THEN ui.timers \ {seen} ELSE ui.timers) \cup {id},
   refreshInterval |-> id]

\* A render of the mounted component and the effects that follow it.
\* loadRecommendations is a new function when one of its dependencies has
\* changed, and only then is setupRefreshInterval (which depends on it alone)
\* one that sees the refreshInterval of this render; clearRefreshInterval sees
\* it whenever it has changed. When a dependency of the effect has changed,
\* the cleanup of the effect of the last render runs (its clearRefreshInterval
\* is that render's) and then the effect: setupRefreshInterval inside a
\* waiting spot, clearRefreshInterval outside.
Render ==
  /\ component.mounted /\ component.dirty
  /\ LET first == ~component.rendered
         state == component.refreshInterval
         loadChanged ==
           \/ first
           \/ component.isInWaitingSpot # component.shown.isInWaitingSpot
           \/ component.depsChanged
         setupSees == IF loadChanged THEN state ELSE component.setupSees
         effectRuns ==
           first \/ loadChanged \/ state # component.shown.refreshInterval
         before == [timers |-> timers, refreshInterval |-> state]
         cleaned == IF effectRuns /\ ~first
                    THEN clearRefreshInterval(component.cleanupSees, before)
                    ELSE before
         sets == effectRuns /\ component.isInWaitingSpot
         after == IF ~effectRuns THEN cleaned
                  ELSE IF component.isInWaitingSpot
                  THEN setupRefreshInterval(setupSees, cleaned,
                                            component.nextInterval)
                  ELSE clearRefreshInterval(state, cleaned)
     IN /\ sets => component.nextInterval <= MaxIntervals
        /\ timers' = after.timers
        /\ component' =
             [component EXCEPT
                !.rendered = TRUE,
                !.dirty = after.refreshInterval # state,
                !.depsChanged = FALSE,
                !.refreshInterval = after.refreshInterval,
                !.shown = [isInWaitingSpot |-> component.isInWaitingSpot,
                           refreshInterval |-> state],
                !.setupSees = setupSees,
                !.cleanupSees = IF effectRuns THEN state ELSE @,
                !.nextInterval = IF sets THEN @ + 1 ELSE @]
  /\ UNCHANGED <<now, localCache, remoteStore, remoteUp, calls, opsLeft, lastSet,
                 geoVars, purchase>>

\* The subscriber of onWaitingSpotChange updates the location state: the
\* component is inside a waiting spot (with activeWaitingSpot the spot) or
\* outside (with activeWaitingSpot null), and will render.
WaitingSpotChange(isInSpot) ==
  /\ component.mounted
  /\ component.isInWaitingSpot # isInSpot
  /\ component' = [component EXCEPT !.isInWaitingSpot = isInSpot, !.dirty = TRUE]
  /\ UNCHANGED <<now, localCache, remoteStore, remoteUp, calls, opsLeft, lastSet,
                 geoVars, timers, purchase>>

\* Another dependency of loadRecommendations changes: the location, the
\* heading, the travel plans or the active tab.
DepsChange ==
  /\ component.mounted
  /\ ~component.depsChanged
  /\ component' = [component EXCEPT !.depsChanged = TRUE, !.dirty = TRUE]
  /\ UNCHANGED <<now, localCache, remoteStore, remoteUp, calls, opsLeft, lastSet,
                 geoVars, timers, purchase>>

\* The component unmounts: the cleanup of the effect of its last render runs.
Unmount ==
  /\ component.mounted /\ component.rendered
  /\ timers' = clearRefreshInterval(component.cleanupSees,
                                    [timers |-> timers,
                                     refreshInterval |-> 0]).timers
  /\ component' = [component EXCEPT !.mounted = FALSE, !.dirty = FALSE]
  /\ UNCHANGED <<now, localCache, remoteStore, remoteUp, calls, opsLeft, lastSet,
                 geoVars, purchase>>

\* Thirty seconds of a live interval have passed: its callback runs.
IntervalFires(id) ==
  /\ id \in timers
  /\ id \notin component.fired
  /\ component' = [component EXCEPT !.fired = @ \cup {id}]
  /\ UNCHANGED <<now, localCache, remoteStore, remoteUp, calls, opsLeft, lastSet,
                 geoVars, timers, purchase>>

NextTimer ==
  \/ Render
  \/ \E isInSpot \in BOOLEAN : WaitingSpotChange(isInSpot)
  \/ DepsChange
  \/ Unmount
  \/ \E id \in 1..MaxIntervals : IntervalFires(id)

SpecTimer == Init /\ [][NextTimer]_vars

\* ----------------------------------------------- claims, the refresh timer
\* The last render was outside every waiting spot: a leave, if there was one,
\* has been processed.
LeftProcessed ==
  /\ component.mounted /\ component.rendered /\ ~component.dirty
  /\ ~component.shown.isInWaitingSpot

\* No more than one interval is live.
OneIntervalLive == Cardinality(timers) <= 1

\* Every interval is cleared once the leave or the unmount is processed; none
\* is left to fire.
ClearedOnLeave == (LeftProcessed \/ ~component.mounted) => timers = {}

\* A second clearRefreshInterval changes nothing.
ClearIdempotent ==
  \A seen \in 0..MaxIntervals :
    LET ui == [timers |-> timers, refreshInterval |-> component.refreshInterval]
    IN clearRefreshInterval(seen, clearRefreshInterval(seen, ui))
         = clearRefreshInterval(seen, ui)

\* C19 as stated: at most one refresh interval is live at any time; every
\* interval created by setupRefreshInterval has been cleared when the leave or
\* the unmount has been processed, so that none fires afterwards; a repeated
\* clearRefreshInterval is a no-op.
RefreshTimerLifecycle == OneIntervalLive /\ ClearedOnLeave /\ ClearIdempotent

\* ------------------------------------------------ claims, overlapping sets
\* Two flows call set on the recommendation keys, each with a value of its
\* own; each call suspends on its remote write, so the round trips interleave.
OverlapValue == [c1 |-> ObjA, c2 |-> [kind |-> "object", id |-> "b"]]

NextOverlap ==
  \/ \E c \in OverlapCallers, k \in RecommendationKeys :
       SetLocal(c, k, OverlapValue[c], 0)
  \/ \E c \in OverlapCallers : SetRemote(c)

SpecOverlap == Init /\ [][NextOverlap]_vars

\* Caller d's latest call is a set on the key of caller c's call.
SetOnSameKey(c, d) ==
  /\ d # c
  /\ calls[d].op = "set"
  /\ calls[d].key = calls[c].key

\* C20 as stated: when a set completes last of two overlapping sets on one key
\* (the other set started during its suspension and has already returned), the
\* local tier holds the value of the set that has just completed.
LastCompletedSetWins ==
  [][\A c \in OverlapCallers : \A d \in OverlapCallers :
       ( /\ Resumed(c, "set")
         /\ SetOnSameKey(c, d)
         /\ calls[d].pc = "done"
         /\ calls[d].id < calls[c].id )
       => /\ calls[c].key \in DOMAIN localCache'
          /\ localCache'[calls[c].key].data = OverlapValue[c]]_vars

\* C20, amended: when a set completes while another flow's latest call is a set
\* on the same key (returned or still suspended), the local tier holds the value
\* of the one of the two that started last, whichever remote write lands last.
LastStartedSetWins ==
  [][\A c \in OverlapCallers : \A d \in OverlapCallers :
       (Resumed(c, "set") /\ SetOnSameKey(c, d))
       => LET last == IF calls[d].id < calls[c].id THEN d ELSE c
          IN  /\ calls[c].key \in DOMAIN localCache'
              /\ localCache'[calls[c].key].data = OverlapValue[last]]_vars

\* Both sets have returned; c1 started first and its remote write landed last
\* (the remote tier holds c1's value), yet the local tier holds c2's value.
LastStartedSetWinsWitness ==
  /\ calls["c1"].pc = "done" /\ calls["c2"].pc = "done"
  /\ calls["c1"].op = "set" /\ SetOnSameKey("c1", "c2")
  /\ calls["c1"].id > calls["c2"].id
  /\ calls["c1"].key \in DOMAIN remoteStore
  /\ remoteStore[calls["c1"].key].value
       = JSONstringify(JSONstringify(OverlapValue["c1"]))
  /\ calls["c1"].key \in DOMAIN localCache
  /\ localCache[calls["c1"].key].data = OverlapValue["c2"]

\* --------------------------------------------- claims, the order of options
\* Array.prototype.sort as TimSort runs it on a short array: the leading run
\* is found (and reversed when it descends strictly), then every later element
\* is put into the sorted prefix by binary insertion.
RECURSIVE countRun(_, _, _, _)
countRun(a, n, descending, heading) ==
  IF n >= Len(a) THEN n
  ELSE LET order == compareOptions(a[n + 1], a[n], heading) IN
       IF (descending /\ order < 0) \/ (~descending /\ order >= 0)
       THEN countRun(a, n + 1, descending, heading)
       ELSE n

Reverse(s) == [i \in DOMAIN s |-> s[Len(s) + 1 - i]]

RECURSIVE binarySearch(_, _, _, _, _)
binarySearch(a, pivot, left, right, heading) ==
  IF left >= right THEN left
  ELSE LET mid == left + (right - left) \div 2 IN
       IF compareOptions(pivot, a[mid + 1], heading) < 0
       THEN binarySearch(a, pivot, left, mid, heading)
       ELSE binarySearch(a, pivot, mid + 1, right, heading)

RECURSIVE binaryInsertionSort(_, _, _)
binaryInsertionSort(a, start, heading) ==
  IF start >= Len(a) THEN a
  ELSE LET pivot == a[start + 1]
           left == binarySearch(a, pivot, 0, start, heading)
       IN binaryInsertionSort(
            SubSeq(a, 1, left) \o <<pivot>> \o SubSeq(a, left + 1, start)
              \o SubSeq(a, start + 2, Len(a)),
            start + 1, heading)

timSortOptions(options, heading) ==
  IF Len(options) < 2 THEN options
  ELSE LET descending == compareOptions(options[2], options[1], heading) < 0
           run == countRun(options, 2, descending, heading)
           made == IF descending
                   THEN Reverse(SubSeq(options, 1, run))
                          \o SubSeq(options, run + 1, Len(options))
                   ELSE options
       IN binaryInsertionSort(made, run, heading)

\* The orders the engine's sort may leave the options in: with a comparator
\* that is not a consistent order the result is implementation-defined, and
\* the stable insertion sort and TimSort are the outcomes modelled.
SortOutcomes(options, heading) ==
  {sortOptions(options, heading), timSortOptions(options, heading)}

\* The headings estimateTransitHeading gives the stops of a waiting spot whose
\* destination lies due north (0), or north and a quarter (14) or a half (27)
\* as far to the east: Math.round of atan2(1, 4) and of atan2(1, 2) in degrees.
StopHeadings == {0, 14, 27}

\* The stops of the spot in the order of transitStops, by their headings.
StopOrders ==
  {s \in UNION {[1..n -> StopHeadings] : n \in 1..3} :
     \A i, j \in DOMAIN s : i # j => s[i] # s[j]}

\* The options the loop over the arrivals pushes for such a spot: arrivals in
\* 10, 20 and 30 minutes at every stop, by arrival time, then by stop.
OptionsOf(stops) ==
  Concat([i \in 1..3 |->
    [s \in DOMAIN stops |->
       [id |-> "bus-" \o ToString(s) \o "-" \o ToString(i * 10),
        heading |-> stops[s], arrivalTime |-> i * 10 * 60000]]])

\* The sort that ends getRecommendationsForPlan, for a user heading north.
SortOptions(c, stops, heading) ==
  /\ CanStart(c)
  /\ \A h \in StopHeadings : isRelevantDirection(h, heading)
  /\ \E sorted \in SortOutcomes(OptionsOf(stops), heading) :
       calls' = [calls EXCEPT ![c] =
                   [Done("sort", "", [kind |-> "array", items |-> sorted])
                      EXCEPT !.args = <<stops, heading>>]]
  /\ opsLeft' = opsLeft - 1
  /\ UNCHANGED <<geoVars, uiVars>>
  /\ UNCHANGED <<now, localCache, remoteStore, remoteUp, lastSet>>

NextSort ==
  \E c \in Callers, stops \in StopOrders, heading \in {0, 14} :
    SortOptions(c, stops, heading)

SpecSort == Init /\ [][NextSort]_vars

\* score(a) exceeds score(b) by more than 0.1: the diffs differ by more than 18.
ScoreExceeds(a, b, heading) ==
  (headingDiff(b.heading, heading) - headingDiff(a.heading, heading)) * 10 > 180

\* The order C21 states for a list of options.
OrderedAsStated(list, heading) ==
  /\ \A i \in 1..(Len(list) - 1) :
       \/ ScoreExceeds(list[i], list[i + 1], heading)
       \/ /\ ~ScoreExceeds(list[i + 1], list[i], heading)
          /\ list[i].arrivalTime <= list[i + 1].arrivalTime
  /\ \A i, j \in DOMAIN list :
       i < j => ~ScoreExceeds(list[j], list[i], heading)

\* C21: in every option list the sort returns, each adjacent pair is ordered
\* by score (beyond 0.1) or, the scores within 0.1, by arrival time, and no
\* option is preceded by one whose score is lower by more than 0.1.
RecommendationOrdering ==
  \A c \in Callers :
    (calls[c].op = "sort" /\ calls[c].pc = "done")
      => OrderedAsStated(calls[c].ret.items, calls[c].args[2])

\* ------------------------------------- claims, the inputs of a cached mapping
\* One current plan at one position: facing north and south in spot A, and
\* facing north in spot B, whose stop is another one.
ServedRequests ==
  {Request(0, <<PlanP1>>, MondayMorning),
   [Request(0, <<PlanP1>>, MondayMorning) EXCEPT !.heading = 180],
   [Request(0, <<PlanP1>>, MondayMorning) EXCEPT !.activeWaitingSpot = SpotB]}

SpecServed == Init /\ [][NextRequests(ServedRequests)]_vars

\* The option suits the call: it passes the call's heading filter and its stop
\* is a stop of the call's waiting spot.
SuitsCall(option, args) ==
  /\ isRelevantDirection(option.heading, args.heading)
  /\ \E s \in DOMAIN args.activeWaitingSpot.transitStops :
       args.activeWaitingSpot.transitStops[s].name = option.stopName

\* C22 as stated: every option of a mapping that getRecommendations returns,
\* computed or served from the cache, passes the heading-relevance filter for
\* the heading of that call and refers to a stop of that call's waiting spot.
ServedForOwnInputs ==
  [][\A c \in Callers :
       (/\ Completed(c, "getRecommendations")
        /\ ~calls'[c].threw
        /\ calls'[c].ret.kind = "object")
       => LET entries == calls'[c].ret.entries IN
          \A id \in DOMAIN entries : \A i \in DOMAIN entries[id] :
            SuitsCall(entries[id][i], calls'[c].args)]_vars

\* ------------------------------------------ claims, the remote round trip
\* C23 as stated: when get(k) is served by the remote tier, and the remote
\* entry of k is the one that set(k, v) wrote, get returns v.
RemoteRoundTrip ==
  [][\A c \in Callers : \A v \in Values :
       LET k == calls[c].key IN
       (/\ Resumed(c, "get")
        /\ calls[c].pc = "get_remote"
        /\ calls'[c].ret # Null
        /\ k \in DOMAIN remoteStore
        /\ remoteStore[k].value = JSONstringify(JSONstringify(v)))
       => calls'[c].ret = v]_vars

\* ---------------------------------------------- claims, the TTL across tiers
\* C24 as stated: get never returns a value later than its ttl after its set.
\* A value returned from the entry that set wrote locally is at most ttl old;
\* a value returned as the remote tier holds it (read there, or re-inserted
\* into the local tier by an earlier remote hit) is returned no later than the
\* remote entry expires, which is ttl after the remote write of its set.
TtlUpperBound ==
  [][\A c \in Callers :
       LET k == calls'[c].key IN
       (Completed(c, "get") /\ calls'[c].ret # Null)
       => /\ (k \in DOMAIN lastSet /\ calls'[c].ret = lastSet[k].data)
               => now - lastSet[k].at <= lastSet[k].ttl * MsPerSecond
          /\ (k \in DOMAIN remoteStore
                /\ calls'[c].ret = JSONparse(remoteStore[k].value))
               => now <= remoteStore[k].expireAt]_vars

\* ------------------------------------- claims, readers after an invalidation
\* One flow invalidates (a pattern, or everything) while another sets and
\* gets the recommendation keys.
NextReaders ==
  \/ \E p \in RecommendationPatterns : InvalidatePattern("c1", p)
  \/ Clear("c1")
  \/ \E k \in RecommendationKeys : SetLocal("c2", k, ObjA, 0)
  \/ SetRemote("c2")
  \/ \E k \in RecommendationKeys : GetLocal("c2", k)
  \/ GetRemote("c2")

SpecReaders == Init /\ [][NextReaders]_vars

\* The call that c1 has last completed removed key k from the local tier, and
\* no call has started since, so k has not been set again.
JustInvalidated(k) ==
  /\ calls["c1"].pc = "done"
  /\ calls["c1"].id = opsLeft + 1
  /\ \/ calls["c1"].op = "clear"
     \/ calls["c1"].op = "invalidatePattern" /\ Includes(k, calls["c1"].key)

\* The same, seen from a get of k that started next and is suspended.
InvalidatedBeforeGet(k) ==
  /\ calls["c1"].pc = "done"
  /\ calls["c1"].id = calls["c2"].id + 1
  /\ \/ calls["c1"].op = "clear"
     \/ calls["c1"].op = "invalidatePattern" /\ Includes(k, calls["c1"].key)

\* C25 as stated: the get of a key that follows its removal by
\* invalidatePattern or clear returns absent, also when the remote tier is
\* reachable and still holds the key.
InvalidationEffective ==
  [][\A k \in RecommendationKeys :
       /\ (Started("c2", "get") /\ calls'["c2"].key = k /\ JustInvalidated(k)
             /\ calls'["c2"].pc = "done")
            => calls'["c2"].ret = Null
       /\ (Resumed("c2", "get") /\ calls["c2"].key = k /\ InvalidatedBeforeGet(k))
            => calls'["c2"].ret = Null]_vars

\* C25, amended: invalidatePattern and clear remove the key from the local
\* tier only: when they return, the key is absent from the local tier and the
\* remote tier is as it was. A get that follows and still finds the local
\* tier without the key asks the remote tier: it returns absent when the
\* remote tier is unreachable or holds no live entry of the key, and
\* otherwise only what the remote tier holds.
InvalidationLocalOnly ==
  [][\A k \in RecommendationKeys :
       /\ \A c \in OverlapCallers :
            (\/ Completed(c, "invalidatePattern") /\ Includes(k, calls'[c].key)
             \/ Completed(c, "clear"))
              => /\ k \notin DOMAIN localCache'
                 /\ remoteStore' = remoteStore
       /\ (/\ Started("c2", "get") /\ calls'["c2"].key = k
           /\ JustInvalidated(k) /\ k \notin DOMAIN localCache)
            => calls'["c2"].pc = "get_remote"
       /\ (Resumed("c2", "get") /\ calls["c2"].key = k /\ InvalidatedBeforeGet(k))
            => /\ (~remoteUp \/ ~RemoteLive(remoteStore, k, now))
                    => calls'["c2"].ret = Null
               /\ calls'["c2"].ret # Null
                    => /\ remoteUp
                       /\ calls'["c2"].ret = handlerGet(remoteStore, k, now)]_vars

\* C25, witness: right after invalidatePattern removed a key, a get of the key
\* returned the value that the remote tier still holds.
InvalidationLocalOnlyWitness ==
  \E k \in RecommendationKeys :
    /\ calls["c1"].op = "invalidatePattern"
    /\ InvalidatedBeforeGet(k)
    /\ calls["c2"].op = "get" /\ calls["c2"].pc = "done" /\ calls["c2"].key = k
    /\ calls["c2"].ret # Null
    /\ calls["c2"].ret = handlerGet(remoteStore, k, now)

\* ------------------------------------------- claims, presence and location
\* No call is suspended.
Quiescent == \A c \in Callers : calls[c].pc \in {"idle", "done"}

\* C26 as stated: in every quiescent state where the location is known, the
\* inside flag and the matched spot's id are the first-match result of the
\* current location over the current active spot list.
PresenceTracksLocation ==
  (Quiescent /\ currentLocation # Null)
    => /\ (\A i \in DOMAIN waitingSpots :
             ~Contains(waitingSpots[i], currentLocation))
            => (~isInWaitingSpot /\ currentWaitingSpot = Null)
       /\ \A i \in DOMAIN waitingSpots :
            FirstContaining(waitingSpots, currentLocation, i)
              => /\ isInWaitingSpot
                 /\ IdOf(currentWaitingSpot) = waitingSpots[i].id

\* ---------------------------------------------- claims, an edited waiting spot
\* C27 as stated: when setWaitingSpots completes with a spot matched, the
\* matched spot is an element of the current active list (the same centre,
\* radius and stops), and the last notification delivered carries that version.
MatchedSpotIsCurrent ==
  [][\A c \in Callers :
       (Completed(c, "setWaitingSpots") /\ currentWaitingSpot' # Null)
       => /\ \E i \in DOMAIN waitingSpots' : waitingSpots'[i] = currentWaitingSpot'
          /\ notifications' # <<>>
          /\ notifications'[Len(notifications')].spot = currentWaitingSpot']_vars

\* ------------------------------------- claims, the inside flag and the spot
\* The callback that useLocation's subscriber invokes for a notification.
callbackOf(notification) ==
  IF notification.isInSpot /\ notification.spot # Null THEN "onEnterWaitingSpot"
  ELSE IF ~notification.isInSpot /\ notification.spot # Null
  THEN "onLeaveWaitingSpot"
  ELSE "none"

\* C28: the inside flag is true exactly when a spot is matched, every
\* notification carries a spot exactly when its flag is true, and so the
\* subscriber of useLocation never invokes onLeaveWaitingSpot.
FlagAndSpotAgree ==
  /\ isInWaitingSpot <=> currentWaitingSpot # Null
  /\ \A i \in DOMAIN notifications :
       /\ notifications[i].isInSpot <=> notifications[i].spot # Null
       /\ callbackOf(notifications[i]) # "onLeaveWaitingSpot"

\* C28, witness: the user entered a spot and left it; the leave notification
\* carries null and invokes no callback.
FlagAndSpotAgreeWitness ==
  /\ ~isInWaitingSpot /\ currentWaitingSpot = Null
  /\ \E i \in DOMAIN notifications :
       /\ i > 1
       /\ callbackOf(notifications[i - 1]) = "onEnterWaitingSpot"
       /\ notifications[i] = [isInSpot |-> FALSE, spot |-> Null]
       /\ callbackOf(notifications[i]) = "none"

\* ------------------------------------ claims, a slot that wraps midnight
\* An active plan whose one slot is 22:00-02:00 on day dayOfWeek.
WrapPlan(dayOfWeek) ==
  [id |-> "p", isActive |-> TRUE, destinations |-> <<DestNorth>>,
   timeSlots |-> <<[dayOfWeek |-> dayOfWeek, startTime |-> "22:00",
                    endTime |-> "02:00", destinationIds |-> <<"d1">>]>>]

\* getActiveTravelPlans on such a plan, on every day of the week, at 01:00,
\* 02:00, 10:00, 22:00 and 23:30.
NextWrap ==
  \E c \in Callers, dayOfWeek \in 0..6, day \in 0..6,
     t \in {60, 120, 600, 1320, 1410} :
    GetActiveTravelPlans(c, WrapPlan(dayOfWeek), day, t)

SpecWrap == Init /\ [][NextWrap]_vars

\* C29: a slot with start > end and dayOfWeek = D makes its plan current at a
\* clock time <= end exactly when the day of the time is D; the same clock
\* time on day D+1, in the hours that follow the slot's start, does not match.
\* getCurrentDestinations applies the same test.
WrapBoundToOwnDay ==
  \A c \in Callers :
    (calls[c].op = "getActiveTravelPlans" /\ calls[c].pc = "done")
    => LET plan == calls[c].args.travelPlans[1]
           time == calls[c].args.currentTime
           slot == plan.timeSlots[1]
           t == time.hours * 60 + time.minutes
           kept == calls[c].ret.items # <<>>
       IN (/\ Len(plan.timeSlots) = 1 /\ plan.isActive
           /\ MinutesOfClock(slot.startTime) > MinutesOfClock(slot.endTime)
           /\ t <= MinutesOfClock(slot.endTime))
          => /\ kept <=> time.day = slot.dayOfWeek
             /\ time.day = (slot.dayOfWeek + 1) % 7 => ~kept
             /\ kept <=> getCurrentDestinations(plan, time) # <<>>

\* C29, witness: the slot of Saturday 22:00-02:00 is asked for on Sunday at
\* 01:00, three hours after its start, and the plan is not current.
WrapBoundToOwnDayWitness ==
  \E c \in Callers :
    /\ calls[c].op = "getActiveTravelPlans" /\ calls[c].pc = "done"
    /\ calls[c].args.travelPlans = <<WrapPlan(6)>>
    /\ calls[c].args.currentTime = [day |-> 0, hours |-> 1, minutes |-> 0]
    /\ calls[c].ret.items = <<>>

\* ---------------------------------------------------------------------------
\* useShakeToPurchase (src/src/hooks/useShakeToPurchase.ts): one instance of
\* the hook with its default showConfirmation = true and a selected transit
\* option.  purchase.isPurchasing is the React state; purchase.shakeSees is the
\* isPurchasing that the subscribed handleShake closure captured at the last
\* render; confirmDialogs and retryDialogs count the open 'Confirm Purchase'
\* and 'Purchase Failed' alerts; pending counts the purchaseTicket promises
\* that have not settled; started counts the performPurchase calls.
\* ---------------------------------------------------------------------------

MaxPurchases == 3

PurchaseOutcomes == {"success", "failure", "throws"}

\* performPurchase up to its await of purchaseTicket: setIsPurchasing(true),
\* then the call is pending (the haptic await before it changes no state).
performPurchase(p) ==
  [p EXCEPT !.isPurchasing = TRUE, !.pending = @ + 1, !.started = @ + 1]

\* The frame of every step of the hook.
PurchaseFrame ==
  UNCHANGED <<now, localCache, remoteStore, remoteUp, calls, opsLeft, lastSet,
              geoVars, component, timers>>

\* ShakeDetectionService.triggerShake calls the subscribed handleShake (one
\* shake per cooldown): it returns early when its closure saw a purchase in
\* progress, otherwise it opens the confirmation dialog.
handleShake ==
  /\ purchase.confirmDialogs < MaxPurchases
  /\ purchase' =
       IF purchase.shakeSees
         THEN purchase
         ELSE [purchase EXCEPT !.confirmDialogs = @ + 1]
  /\ PurchaseFrame

\* The 'Purchase' button of a confirmation dialog: performPurchase.
PressPurchase ==
  /\ purchase.confirmDialogs > 0
  /\ purchase.started < MaxPurchases
  /\ purchase' = performPurchase([purchase EXCEPT !.confirmDialogs = @ - 1])
  /\ PurchaseFrame

\* The 'Cancel' button of either dialog.
PressCancel ==
  /\ \/ /\ purchase.confirmDialogs > 0
        /\ purchase' = [purchase EXCEPT !.confirmDialogs = @ - 1]
     \/ /\ purchase.retryDialogs > 0
        /\ purchase' = [purchase EXCEPT !.retryDialogs = @ - 1]
  /\ PurchaseFrame

\* manualPurchase: performPurchase whenever an option is selected.
manualPurchase ==
  /\ purchase.started < MaxPurchases
  /\ purchase' = performPurchase(purchase)
  /\ PurchaseFrame

\* A purchaseTicket promise settles: a failed result opens the 'Purchase
\* Failed' alert with its Retry button, and the finally block runs
\* setIsPurchasing(false) in every case.
PurchaseSettles(outcome) ==
  /\ purchase.pending > 0
  /\ purchase' =
       [purchase EXCEPT
          !.pending = @ - 1,
          !.isPurchasing = FALSE,
          !.retryDialogs = IF outcome = "failure" THEN @ + 1 ELSE @]
  /\ PurchaseFrame

\* The 'Retry' button of a 'Purchase Failed' alert: performPurchase.
PressRetry ==
  /\ purchase.retryDialogs > 0
  /\ purchase.started < MaxPurchases
  /\ purchase' = performPurchase([purchase EXCEPT !.retryDialogs = @ - 1])
  /\ PurchaseFrame

\* A render after isPurchasing changed: handleShake is re-created and the
\* effect subscribes the new closure.
RenderHook ==
  /\ purchase.shakeSees # purchase.isPurchasing
  /\ purchase' = [purchase EXCEPT !.shakeSees = purchase.isPurchasing]
  /\ PurchaseFrame

NextPurchase ==
  \/ handleShake
  \/ PressPurchase
  \/ PressCancel
  \/ manualPurchase
  \/ \E outcome \in PurchaseOutcomes : PurchaseSettles(outcome)
  \/ PressRetry
  \/ RenderHook

SpecPurchase == Init /\ [][NextPurchase]_vars

\* C30: for one useShakeToPurchase instance, at no time are two
\* ticketPurchaseService.purchaseTicket calls pending concurrently, whatever
\* the interleaving of shakes, Purchase presses, Retry presses and
\* manualPurchase calls.
OnePurchaseInFlight == purchase.pending <= 1

====
